---------------------------- MODULE Spec2Model ----------------------------
(***************************************************************************)
(* A model of barq, a small threaded HTTP/1.1 application server:          *)
(*   src/src/barq/server.py  ThreadPool, SocketReader, Server              *)
(*   src/src/barq/http.py    HTTPParser, write_response                    *)
(*   src/src/barq/router.py  RadixRouter                                   *)
(*                                                                         *)
(* Text is modelled as sequences of one-character strings, so that the     *)
(* parser's splitting, trimming and case folding are computed and not      *)
(* assumed.  Python's 0-based str.find / -1 become 1-based positions / 0.  *)
(***************************************************************************)
EXTENDS Integers, Sequences, FiniteSets, TLC

(***************************************************************************)
(* Program constants.                                                      *)
(***************************************************************************)
MAX_REQUESTS_PER_CONN == 1000

RECV_SIZE == 4096

(***************************************************************************)
(* Text helpers (Python str / bytes operations used by the code).          *)
(***************************************************************************)
Min2(a, b) == IF a <= b THEN a ELSE b

Max2(a, b) == IF a >= b THEN a ELSE b

\* s[i:] in Python terms, for a 1-based position i of the first kept element
DropTo(s, i) == SubSeq(s, i, Len(s))

\* str.find(ch): the first position of ch in s, 0 when there is none
Find(s, ch) ==
    LET hits == {i \in 1..Len(s) : s[i] = ch}
    IN  IF hits = {} THEN 0 ELSE CHOOSE i \in hits : \A j \in hits : i <= j

\* bytearray.find(b"\r\n"): the first position of a CR directly followed by LF
FindCRLF(b) ==
    LET hits == {i \in 1..(Len(b) - 1) : b[i] = "\r" /\ b[i + 1] = "\n"}
    IN  IF hits = {} THEN 0 ELSE CHOOSE i \in hits : \A j \in hits : i <= j

UpperCase == <<"A","B","C","D","E","F","G","H","I","J","K","L","M",
               "N","O","P","Q","R","S","T","U","V","W","X","Y","Z">>

LowerCase == <<"a","b","c","d","e","f","g","h","i","j","k","l","m",
               "n","o","p","q","r","s","t","u","v","w","x","y","z">>

\* the (ASCII) letters that str.lower() and str.upper() change, with their images
ToLower == [ch \in {UpperCase[i] : i \in 1..26} |-> LowerCase[Find(UpperCase, ch)]]

ToUpper == [ch \in {LowerCase[i] : i \in 1..26} |-> UpperCase[Find(LowerCase, ch)]]

\* str.lower() / str.upper() on one character
LowerCh(ch) == IF ch \in DOMAIN ToLower THEN ToLower[ch] ELSE ch

UpperCh(ch) == IF ch \in DOMAIN ToUpper THEN ToUpper[ch] ELSE ch

Lower(s) == [i \in 1..Len(s) |-> LowerCh(s[i])]

Upper(s) == [i \in 1..Len(s) |-> UpperCh(s[i])]

\* the characters str.strip() and int() treat as white space (ASCII part)
Whitespace == {" ", "\t", "\n", "\r", "\f"}

\* str.strip(): drop leading and trailing white space
Strip(s) ==
    LET keep == {i \in 1..Len(s) : s[i] \notin Whitespace}
    IN  IF keep = {} THEN <<>>
        ELSE SubSeq(s, CHOOSE i \in keep : \A j \in keep : i <= j,
                       CHOOSE i \in keep : \A j \in keep : i >= j)

Digits == <<"0","1","2","3","4","5","6","7","8","9">>

IsDigit(ch) == Find(Digits, ch) # 0

RECURSIVE DecimalValue(_)
DecimalValue(s) ==
    IF s = <<>> THEN 0
    ELSE 10 * DecimalValue(SubSeq(s, 1, Len(s) - 1)) + (Find(Digits, s[Len(s)]) - 1)

\* int(text): white space stripped, an optional sign, then one or more decimal
\* digits give [ok |-> TRUE, n |-> the value]; anything else raises ValueError,
\* [ok |-> FALSE]
IntOf(text) ==
    LET t      == Strip(text)
        signed == t # <<>> /\ t[1] \in {"+", "-"}
        digits == IF signed THEN Tail(t) ELSE t
    IN  IF digits = <<>> \/ \E i \in 1..Len(digits) : ~IsDigit(digits[i])
        THEN [ok |-> FALSE, n |-> 0]
        ELSE [ok |-> TRUE,
              n  |-> IF t[1] = "-" THEN 0 - DecimalValue(digits)
                     ELSE DecimalValue(digits)]


(***************************************************************************)
(* SocketReader (server.py 35-60): the two buffer operations, given the    *)
(* bytes buffered so far.  Whether more bytes must be received first is    *)
(* decided by ReaderNeedsData below.                                       *)
(***************************************************************************)
\* SocketReader.readline once the buffer holds a CRLF: the text before it
\* (latin-1 decoding maps byte k to character k), and the buffer after it
ReadlineResult(buf) ==
    LET idx == FindCRLF(buf)
    IN  [line |-> SubSeq(buf, 1, idx - 1), buffer |-> DropTo(buf, idx + 2)]

\* Python's buffer[:n]: the first n bytes, or all but the last -n when n < 0
PySlicePrefixLen(buf, n) ==
    IF n >= 0 THEN Min2(n, Len(buf)) ELSE Max2(Len(buf) + n, 0)

\* faulty variant of ReadResult: what was received beyond the n bytes is dropped
ReadResultDropsRest(buf, n) ==
    [data |-> SubSeq(buf, 1, PySlicePrefixLen(buf, n)), buffer |-> <<>>]

\* SocketReader.read(n) once len(buffer) >= n
ReadResult(buf, n) ==
    LET k == PySlicePrefixLen(buf, n)
    IN  [data |-> SubSeq(buf, 1, k), buffer |-> DropTo(buf, k + 1)]

(***************************************************************************)
(* HTTPParser (http.py 34-74).                                             *)
(***************************************************************************)
\* line.split(" ", 2): cut at the first two spaces only
SplitSpace2(line) ==
    LET spaces == {i \in 1..Len(line) : line[i] = " "}
        i1     == CHOOSE i \in spaces : \A j \in spaces : i <= j
        i2     == CHOOSE i \in spaces \ {i1} : \A j \in spaces \ {i1} : i <= j
    IN  IF spaces = {} THEN <<line>>
        ELSE IF spaces = {i1} THEN <<SubSeq(line, 1, i1 - 1), DropTo(line, i1 + 1)>>
        ELSE <<SubSeq(line, 1, i1 - 1), SubSeq(line, i1 + 1, i2 - 1),
               DropTo(line, i2 + 1)>>

\* HTTPParser._parse_request_line: ok with method, target and version, or
\* ~ok when HTTPParseError is raised
ParseRequestLine(line) ==
    LET parts == SplitSpace2(line)
    IN  IF Len(parts) # 3
        THEN [ok |-> FALSE, method |-> <<>>, target |-> <<>>, version |-> <<>>]
        ELSE [ok |-> TRUE, method |-> Upper(parts[1]), target |-> parts[2],
              version |-> parts[3]]

\* HTTPParser._split_target: <<path, query>>
SplitTarget(target) ==
    LET i == Find(target, "?")
    IN  IF i # 0 THEN <<SubSeq(target, 1, i - 1), DropTo(target, i + 1)>>
        ELSE <<target, <<>>>>

\* a dict as a function; d[k] = v
DictPut(d, k, v) == [x \in (DOMAIN d) \cup {k} |-> IF x = k THEN v ELSE d[x]]

\* d.get(k, default)
DictGet(d, k, default) == IF k \in DOMAIN d THEN d[k] ELSE default

EmptyDict == <<>>

\* faulty variant of ParseHeaderLine: a header name met before keeps its first value
ParseHeaderLineFirstWins(headers, line) ==
    LET idx == Find(line, ":")
        key == Lower(SubSeq(line, 1, idx - 1))
    IN  IF idx = 0 THEN [ok |-> FALSE, headers |-> headers]
        ELSE [ok |-> TRUE,
              headers |-> IF key \in DOMAIN headers THEN headers
                          ELSE DictPut(headers, key, Strip(DropTo(line, idx + 1)))]

\* one turn of the loop of HTTPParser._parse_headers on a non-empty line:
\* ok with the headers after it, or ~ok when HTTPParseError is raised
ParseHeaderLine(headers, line) ==
    LET idx == Find(line, ":")
    IN  IF idx = 0 THEN [ok |-> FALSE, headers |-> headers]
        ELSE [ok |-> TRUE,
              headers |-> DictPut(headers, Lower(SubSeq(line, 1, idx - 1)),
                                  Strip(DropTo(line, idx + 1)))]

CONTENT_LENGTH == <<"c","o","n","t","e","n","t","-","l","e","n","g","t","h">>

CONNECTION == <<"c","o","n","n","e","c","t","i","o","n">>

CLOSE == <<"c","l","o","s","e">>

KEEP_ALIVE == <<"k","e","e","p","-","a","l","i","v","e">>

\* HTTPParser._read_body, before the read: "none" when the header is absent
\* or empty (no body is read), "error" when int() raises ValueError, else
\* "read" with the number n of bytes to read
BodyLength(headers) ==
    IF CONTENT_LENGTH \notin DOMAIN headers \/ headers[CONTENT_LENGTH] = <<>>
    THEN [kind |-> "none", n |-> 0]
    ELSE LET length == IntOf(headers[CONTENT_LENGTH])
         IN  IF length.ok THEN [kind |-> "read", n |-> length.n]
             ELSE [kind |-> "error", n |-> 0]

\* faulty variant of KeepAlive: the header is compared without .lower()
KeepAliveCaseSensitive(headers) == DictGet(headers, CONNECTION, <<>>) # CLOSE

\* Server._handle 129-130: keep_alive from the request's connection header
KeepAlive(headers) == Lower(DictGet(headers, CONNECTION, <<>>)) # CLOSE

(***************************************************************************)
(* RadixRouter (router.py 9-109).  A RadixNode is a record; its children   *)
(* is a function from segment to RadixNode, its param_child the sequence   *)
(* of at most one RadixNode (<<>> for None), its handlers a function from  *)
(* method to RouteData.                                                    *)
(***************************************************************************)
\* str.split(sep) for a separator of one character
RECURSIVE SplitOn(_, _)
SplitOn(s, sep) ==
    LET i == Find(s, sep)
    IN  IF i = 0 THEN <<s>>
        ELSE <<SubSeq(s, 1, i - 1)>> \o SplitOn(DropTo(s, i + 1), sep)

\* RadixRouter._split_path
SplitPath(path) ==
    IF path = <<"/">> THEN <<>>
    ELSE SelectSeq(SplitOn(path, "/"), LAMBDA seg : seg # <<>>)

\* the characters of \w (ASCII part)
WordChars ==
    {LowerCase[i] : i \in 1..26} \cup {UpperCase[i] : i \in 1..26}
        \cup {Digits[i] : i \in 1..10} \cup {"_"}

\* PARAM_RE.fullmatch(segment) is not None: "{", one or more \w, "}"
IsParam(segment) ==
    /\ Len(segment) >= 3
    /\ segment[1] = "{"
    /\ segment[Len(segment)] = "}"
    /\ \A i \in 2..(Len(segment) - 1) : segment[i] \in WordChars

\* param_match.group(1)
ParamName(segment) == SubSeq(segment, 2, Len(segment) - 1)

\* RadixNode(...) with the defaults of the dataclass
RadixNode(segment, is_param, param_name) ==
    [segment |-> segment, is_param |-> is_param, param_name |-> param_name,
     children |-> EmptyDict, param_child |-> <<>>, handlers |-> EmptyDict]

\* RouteData(handler, meta, param_names); the handler is named by the
\* number of the add call that registered it
RouteData(handler, param_names) == [handler |-> handler, param_names |-> param_names]

\* the param_names list that add builds
ParamNames(segments) ==
    LET params == SelectSeq(segments, IsParam)
    IN  [i \in 1..Len(params) |-> ParamName(params[i])]

\* add 44-50: the parameterized child, created when there is none
ParamChild(node, param_name) ==
    IF node.param_child = <<>> THEN RadixNode(<<"*">>, TRUE, param_name)
    ELSE node.param_child[1]

\* add 52-54: the literal child of that segment, created when there is none
LiteralChild(node, segment) ==
    IF segment \in DOMAIN node.children THEN node.children[segment]
    ELSE RadixNode(segment, FALSE, <<>>)

\* the loop of add (37-56) from segment i on (1-based), as the node it
\* leaves in place of `node`
RECURSIVE AddFrom(_, _, _, _, _)
AddFrom(node, segments, i, method, route) ==
    IF i > Len(segments)
    THEN [node EXCEPT !.handlers = DictPut(@, method, route)]
    ELSE IF IsParam(segments[i])
         THEN [node EXCEPT
                  !.param_child =
                      <<AddFrom(ParamChild(node, ParamName(segments[i])),
                                segments, i + 1, method, route)>>]
         ELSE [node EXCEPT
                  !.children =
                      DictPut(@, segments[i],
                              AddFrom(LiteralChild(node, segments[i]),
                                      segments, i + 1, method, route))]

\* del d[k] on a dict that holds k
DictDel(d, k) == [x \in (DOMAIN d) \ {k} |-> d[x]]

\* what _match_recursive gives: result is <<>> for None, else <<RouteData>>;
\* params is the dict, which the callee changes in place; raised tells that
\* KeyError left the call
Outcome(result, params, raised) ==
    [result |-> result, params |-> params, raised |-> raised]

\* faulty variant of LiteralReturns: what the literal child's subtree found is
\* dropped, and the parameterized child is tried
LiteralDropped(lit) == lit.raised

\* _match_recursive 88-89: `if result: return result` after the literal
\* child (an exception leaves the call as well)
LiteralReturns(lit) == lit.raised \/ lit.result # <<>>

\* RadixRouter._match_recursive (67-104); index counts from 0
RECURSIVE MatchRecursive(_, _, _, _, _)
MatchRecursive(node, segments, index, method, params) ==
    IF index = Len(segments)
    THEN Outcome(IF method \in DOMAIN node.handlers THEN <<node.handlers[method]>>
                 ELSE <<>>,
                 params, FALSE)
    ELSE LET segment == segments[index + 1]
             lit == IF segment \in DOMAIN node.children
                    THEN MatchRecursive(node.children[segment], segments, index + 1,
                                        method, params)
                    ELSE Outcome(<<>>, params, FALSE)
         IN  IF LiteralReturns(lit) THEN lit
             ELSE IF node.param_child = <<>> THEN Outcome(<<>>, lit.params, FALSE)
             ELSE LET name == node.param_child[1].param_name
                      par  == MatchRecursive(node.param_child[1], segments, index + 1,
                                             method, DictPut(lit.params, name, segment))
                  IN  IF par.raised \/ par.result # <<>> THEN par
                      ELSE IF name \in DOMAIN par.params
                           THEN Outcome(<<>>, DictDel(par.params, name), FALSE)
                           ELSE Outcome(<<>>, par.params, TRUE)

(***************************************************************************)
(* Router (app.py 28-65), the router that Barq holds.  A compiled pattern  *)
(* is the sequence of its parts: an escaped literal text, or a named       *)
(* group (?P<name>[^/]+).                                                   *)
(***************************************************************************)
\* where the match of PARAM_RE that starts at position i of path ends, 0
\* when none starts there
ParamEnd(path, i) ==
    LET closers == {j \in (i + 2)..Len(path) :
                       /\ path[i] = "{"
                       /\ path[j] = "}"
                       /\ \A k \in (i + 1)..(j - 1) : path[k] \in WordChars}
    IN  IF closers = {} THEN 0 ELSE CHOOSE j \in closers : TRUE

\* the loop of Router.add over PARAM_RE.finditer(path), and line 53: the
\* parts of the regular expression, literal and group in turn
RECURSIVE RouterPattern(_)
RouterPattern(path) ==
    LET starts == {i \in 1..Len(path) : ParamEnd(path, i) # 0}
        i      == CHOOSE a \in starts : \A b \in starts : a <= b
    IN  IF starts = {} THEN <<[group |-> FALSE, text |-> path]>>
        ELSE <<[group |-> FALSE, text |-> SubSeq(path, 1, i - 1)],
               [group |-> TRUE, text |-> SubSeq(path, i + 1, ParamEnd(path, i) - 1)]>>
                 \o RouterPattern(DropTo(path, ParamEnd(path, i) + 1))

\* the param_names list of Router.add
GroupNames(pattern) ==
    LET groups == SelectSeq(pattern, LAMBDA part : part.group)
    IN  [i \in 1..Len(groups) |-> groups[i].text]

\* re.compile at line 54 raises re.error: a group name used twice, or one
\* that is no identifier
CompileRaises(pattern) ==
    LET names == GroupNames(pattern)
    IN  \/ \E i, j \in 1..Len(names) : i # j /\ names[i] = names[j]
        \/ \E i \in 1..Len(names) : IsDigit(names[i][1])

\* faulty variant of GroupLengths: the group may be empty, as with [^/]*
GroupLengthsFromZero(text) == 0..Len(text)

\* the numbers of characters that a group [^/]+ may take of text: one or more
GroupLengths(text) == 1..Len(text)

\* route.pattern.match(path) for a pattern "^" parts "$": ok and the groups,
\* each group as long as the rest of the pattern allows; "$" also matches
\* before a last line feed
RECURSIVE PatternMatch(_, _)
PatternMatch(pattern, text) ==
    IF pattern = <<>>
    THEN [ok |-> text = <<>> \/ text = <<"\n">>, groups |-> EmptyDict]
    ELSE IF ~Head(pattern).group
    THEN IF /\ Len(text) >= Len(Head(pattern).text)
            /\ SubSeq(text, 1, Len(Head(pattern).text)) = Head(pattern).text
         THEN PatternMatch(Tail(pattern), DropTo(text, Len(Head(pattern).text) + 1))
         ELSE [ok |-> FALSE, groups |-> EmptyDict]
    ELSE CHOOSE m \in
             {IF \A t \in tries : ~t.rest.ok
              THEN [ok |-> FALSE, groups |-> EmptyDict]
              ELSE CHOOSE longest \in
                       {[ok     |-> TRUE,
                         groups |-> DictPut(t.rest.groups, Head(pattern).text,
                                            SubSeq(text, 1, t.n))] :
                            t \in {u \in tries :
                                      /\ u.rest.ok
                                      /\ \A v \in tries : v.rest.ok => u.n >= v.n}} :
                       TRUE :
                  tries \in
                      {{[n    |-> n,
                         rest |-> PatternMatch(Tail(pattern), DropTo(text, n + 1))] :
                            n \in {k \in GroupLengths(text) :
                                      \A j \in 1..k : text[j] # "/"}}}} :
             TRUE

\* Route(path, method, handler, pattern, param_names)
Route(path, method, handler) ==
    [path |-> path, method |-> method, handler |-> handler,
     pattern |-> RouterPattern(path), param_names |-> GroupNames(RouterPattern(path))]

\* Router.add: self.routes after the call (unchanged when re.compile raises)
RouterAdd(list, path, method, handler) ==
    IF CompileRaises(RouterPattern(path)) THEN list
    ELSE Append(list, Route(path, method, handler))

\* Router.match: <<>> for None, else <<the route and the params>>
RouterMatch(list, path, method) ==
    CHOOSE found \in
        {IF \A i \in 1..Len(list) : ~tried[i].ok THEN <<>>
         ELSE CHOOSE first \in
                  {<<[route |-> list[i], params |-> tried[i].groups]>> :
                       i \in {a \in 1..Len(list) :
                                 /\ tried[a].ok
                                 /\ \A b \in 1..(a - 1) : ~tried[b].ok}} :
                  TRUE :
             tried \in
                 {[i \in 1..Len(list) |->
                      IF list[i].method = method
                      THEN PatternMatch(list[i].pattern, path)
                      ELSE [ok |-> FALSE, groups |-> EmptyDict]]}} :
        TRUE

(***************************************************************************)
(* Barq (app.py 68-241).  The functions of the application (handlers and   *)
(* dependency callables) are given by their parameters and by what they    *)
(* do when called.  What runs while a request is handled is recorded in a  *)
(* trace; values are records, so that two calls of one callable give       *)
(* different values.                                                       *)
(***************************************************************************)
\* a parameter annotated with Depends(fn)
DependsOn(name, fn) == [name |-> name, kind |-> "Depends", fn |-> fn]

\* a parameter without annotation
Plain(name) == [name |-> name, kind |-> "plain", fn |-> ""]

\* a parameter annotated with a pydantic model (a BaseModel subclass)
BodyModel(name, model) == [name |-> name, kind |-> "model", fn |-> model]

\* what a function does once called: return a value, or raise
Returns == [raises |-> "", status_code |-> 0, detail |-> <<>>]

RaisesHTTP(status_code, detail) ==
    [raises |-> "HTTPException", status_code |-> status_code, detail |-> detail]

RaisesOther == [raises |-> "Exception", status_code |-> 0, detail |-> <<>>]

ITEM_NOT_FOUND == <<"I","t","e","m"," ","n","o","t"," ","f","o","u","n","d">>

UNAUTHORIZED == <<"U","n","a","u","t","h","o","r","i","z","e","d">>

\* the handlers and the dependency callables of the application
Functions ==
    [get_item |-> [params |-> <<Plain(<<"i","d">>)>>, does |-> Returns],
     new_item |-> [params |-> <<>>, does |-> Returns],
     two      |-> [params |-> <<DependsOn(<<"p">>, "get_db"),
                                DependsOn(<<"q">>, "get_db")>>,
                   does   |-> Returns],
     mixed    |-> [params |-> <<DependsOn(<<"p">>, "get_db"),
                                DependsOn(<<"q">>, "get_db"),
                                DependsOn(<<"a">>, "dep_a")>>,
                   does   |-> Returns],
     diamond  |-> [params |-> <<DependsOn(<<"a">>, "dep_a"),
                                DependsOn(<<"b">>, "dep_b")>>,
                   does   |-> Returns],
     missing  |-> [params |-> <<>>, does |-> RaisesHTTP(404, ITEM_NOT_FOUND)],
     secure   |-> [params |-> <<DependsOn(<<"u","s","e","r">>, "auth")>>,
                   does   |-> Returns],
     boom     |-> [params |-> <<>>, does |-> RaisesOther],
     search   |-> [params |-> <<Plain(<<"q">>)>>, does |-> Returns],
     create_item |-> [params |-> <<BodyModel(<<"i","t","e","m">>, "Item")>>,
                      does   |-> Returns],
     events   |-> [params |-> <<>>, does |-> Returns],
     report   |-> [params |-> <<DependsOn(<<"d","b">>, "bad_db")>>, does |-> Returns],
     bad_db   |-> [params |-> <<>>, does |-> RaisesOther],
     get_db   |-> [params |-> <<>>, does |-> Returns],
     dep_a    |-> [params |-> <<DependsOn(<<"d","b">>, "get_db")>>, does |-> Returns],
     dep_b    |-> [params |-> <<DependsOn(<<"d","b">>, "get_db")>>, does |-> Returns],
     auth     |-> [params |-> <<>>, does |-> RaisesHTTP(401, UNAUTHORIZED)]]

\* json.loads for the texts the model sends: null, a decimal integer, a
\* string without escapes, {} and an object of one member whose value is
\* one of the former, all without white space; any other text raises
\* JSONDecodeError, [ok |-> FALSE]
JsonNone == [type |-> "None", val |-> <<>>]

JsonScalar(text) ==
    IF text = <<"n","u","l","l">> THEN [ok |-> TRUE, value |-> JsonNone]
    ELSE IF /\ text # <<>>
            /\ \A i \in 1..Len(text) : IsDigit(text[i])
            /\ (Len(text) = 1 \/ text[1] # "0")
    THEN [ok |-> TRUE, value |-> [type |-> "int", val |-> DecimalValue(text)]]
    ELSE IF /\ Len(text) >= 2
            /\ text[1] = "\"" /\ text[Len(text)] = "\""
            /\ \A i \in 2..(Len(text) - 1) : text[i] \notin {"\"", "\\", "\n", "\r"}
    THEN [ok |-> TRUE, value |-> [type |-> "str", val |-> SubSeq(text, 2, Len(text) - 1)]]
    ELSE [ok |-> FALSE, value |-> JsonNone]

JsonLoads(text) ==
    IF JsonScalar(text).ok THEN JsonScalar(text)
    ELSE IF text = <<"{", "}">>
    THEN [ok |-> TRUE, value |-> [type |-> "dict", val |-> EmptyDict]]
    ELSE IF /\ Len(text) >= 2 /\ text[1] = "{" /\ text[Len(text)] = "}"
            /\ Find(text, ":") # 0
            /\ JsonScalar(SubSeq(text, 2, Find(text, ":") - 1)).ok
            /\ JsonScalar(SubSeq(text, 2, Find(text, ":") - 1)).value.type = "str"
            /\ JsonScalar(SubSeq(text, Find(text, ":") + 1, Len(text) - 1)).ok
    THEN [ok |-> TRUE,
          value |-> [type |-> "dict",
                     val  |-> DictPut(EmptyDict,
                                      JsonScalar(SubSeq(text, 2, Find(text, ":") - 1)).value.val,
                                      JsonScalar(SubSeq(text, Find(text, ":") + 1,
                                                        Len(text) - 1)).value)]]
    ELSE [ok |-> FALSE, value |-> JsonNone]

\* Request.json (types.py 47-50): None for an empty body, else
\* json.loads(self.body)
RequestJson(request) ==
    IF request.body = <<>> THEN [ok |-> TRUE, value |-> JsonNone]
    ELSE JsonLoads(request.body)

\* the pydantic models of the application: class Item(BaseModel): n: int
Models == [Item |-> [field |-> <<"n">>, type |-> "int"]]

\* hint.model_validate(obj) of pydantic: the list e.errors() of the
\* ValidationError raised, <<>> when obj is valid.  obj must be a dict; the
\* required field must be there; an int field takes an integer or a string
\* that int() takes
ModelValidate(model, obj) ==
    IF obj.type # "dict"
    THEN <<[type |-> "model_type", loc |-> <<>>]>>
    ELSE IF Models[model].field \notin DOMAIN obj.val
    THEN <<[type |-> "missing", loc |-> <<Models[model].field>>]>>
    ELSE IF obj.val[Models[model].field].type = "int"
    THEN <<>>
    ELSE IF obj.val[Models[model].field].type # "str"
    THEN <<[type |-> "int_type", loc |-> <<Models[model].field>>]>>
    ELSE IF IntOf(obj.val[Models[model].field].val).ok
    THEN <<>>
    ELSE <<[type |-> "int_parsing", loc |-> <<Models[model].field>>]>>

\* trace entries
Called(fn) == [ev |-> "call", fn |-> fn, mw |-> 0]

Entered(i) == [ev |-> "enter", fn |-> "", mw |-> i]

Left(i) == [ev |-> "exit", fn |-> "", mw |-> i]

LookedUp == [ev |-> "lookup", fn |-> "", mw |-> 0]

\* the number of calls of fn in a trace
CallsOf(fn, trace) == Len(SelectSeq(trace, LAMBDA e : e = Called(fn)))

NoException == [raises |-> "", status_code |-> 0, detail |-> <<>>]

\* fn(**kwargs): TypeError when a parameter of fn has no argument, else the
\* call is made, and returns a value of its own or raises as fn does
Call(fn, kwargs, trace) ==
    IF \E i \in 1..Len(Functions[fn].params) :
           Functions[fn].params[i].name \notin DOMAIN kwargs
    THEN [value |-> <<>>, trace |-> trace,
          raised |-> [raises |-> "TypeError", status_code |-> 0, detail |-> <<>>]]
    ELSE [value  |-> [of |-> fn, call |-> CallsOf(fn, trace) + 1, args |-> kwargs],
          trace  |-> Append(trace, Called(fn)),
          raised |-> Functions[fn].does]

\* faulty variant of FreshCache: the cache is one that outlives the
\* request and holds the value that get_db returned for an earlier request
CacheOfEarlierRequest(cache) ==
    DictPut(EmptyDict, "get_db", [of |-> "get_db", call |-> 1, args |-> EmptyDict])

\* Barq._resolve_dep 182-183: the cached value is used
CacheHit(fn, cache) == fn \in DOMAIN cache

\* the cache that Barq._resolve starts with (135)
FreshCache(cache) == EmptyDict

RECURSIVE ResolveFrom(_, _, _, _, _, _, _)
RECURSIVE ResolveDep(_, _, _, _, _)
\* Barq._resolve for the parameters of fn
Resolve(fn, request, path_params, cache, trace) ==
    ResolveFrom(fn, request, 1, EmptyDict, FreshCache(cache), path_params, trace)

\* the loop of Barq._resolve (137-161) from the i-th parameter of fn on: the
\* kwargs, or the exception raised; the request has no query string and the
\* parameters no defaults
ResolveFrom(fn, request, i, kwargs, cache, path_params, trace) ==
    IF i > Len(Functions[fn].params)
    THEN [kwargs |-> kwargs, trace |-> trace, raised |-> NoException]
    ELSE CHOOSE resolved \in
             {IF param.kind = "Depends"
              THEN CHOOSE after \in
                       {IF d.raised # NoException
                        THEN [kwargs |-> kwargs, trace |-> d.trace,
                              raised |-> d.raised]
                        ELSE ResolveFrom(fn, request, i + 1,
                                         DictPut(kwargs, param.name, d.value),
                                         d.cache, path_params, d.trace) :
                            d \in {ResolveDep(param.fn, request, path_params,
                                              cache, trace)}} :
                       TRUE
              ELSE IF param.name \in DOMAIN path_params
              THEN ResolveFrom(fn, request, i + 1,
                               DictPut(kwargs, param.name,
                                       [of |-> "path_params", call |-> 0,
                                        args |-> path_params[param.name]]),
                               cache, path_params, trace)
              ELSE IF param.kind = "model"
              THEN CHOOSE after \in
                       {IF ~json.ok
                        THEN [kwargs |-> kwargs, trace |-> trace,
                              raised |-> [raises |-> "JSONDecodeError",
                                          status_code |-> 0, detail |-> <<>>]]
                        ELSE IF ModelValidate(param.fn, json.value) # <<>>
                        THEN [kwargs |-> kwargs, trace |-> trace,
                              raised |-> [raises |-> "ValidationError",
                                          status_code |-> 0,
                                          detail |-> ModelValidate(param.fn, json.value)]]
                        ELSE ResolveFrom(fn, request, i + 1,
                                         DictPut(kwargs, param.name,
                                                 [of |-> param.fn, call |-> 0,
                                                  args |-> json.value.val]),
                                         cache, path_params, trace) :
                            json \in {RequestJson(request)}} :
                       TRUE
              ELSE ResolveFrom(fn, request, i + 1, kwargs, cache, path_params, trace) :
                  param \in {Functions[fn].params[i]}} :
             TRUE

\* Barq._resolve_dep (175-189)
ResolveDep(fn, request, path_params, cache, trace) ==
    IF CacheHit(fn, cache)
    THEN [value |-> cache[fn], cache |-> cache, trace |-> trace, raised |-> NoException]
    ELSE CHOOSE resolved \in
             {IF r.raised # NoException
              THEN [value |-> <<>>, cache |-> cache, trace |-> r.trace,
                    raised |-> r.raised]
              ELSE CHOOSE called \in
                       {IF c.raised # NoException
                        THEN [value |-> <<>>, cache |-> cache, trace |-> c.trace,
                              raised |-> c.raised]
                        ELSE [value |-> c.value, cache |-> DictPut(cache, fn, c.value),
                              trace |-> c.trace, raised |-> NoException] :
                            c \in {Call(fn, r.kwargs, r.trace)}} :
                       TRUE :
                  r \in {Resolve(fn, request, path_params, cache, trace)}} :
             TRUE

\* the functions written with yield, and the items that the generator each
\* returns would yield; calling one runs none of its body
Generators == [events |-> <<"a", "b">>]

\* StreamingResponse.json_stream(iterator) (types.py 110-126) with
\* __post_init__ (105-108): the fields of the object, which has no body
StreamingJsonResponse(iterator) ==
    [status_code |-> 200, content_type |-> "application/x-ndjson",
     transfer_encoding |-> "chunked", iterator |-> iterator]

\* Response.json(data, status_code)
JsonResponse(data, status_code) ==
    [status_code |-> status_code, content_type |-> "application/json", body |-> data]

NOT_FOUND == <<"N","o","t"," ","F","o","u","n","d">>

INTERNAL_SERVER_ERROR == <<"I","n","t","e","r","n","a","l"," ","S","e","r","v","e","r"," ","E","r","r","o","r">>

FORBIDDEN == <<"F","o","r","b","i","d","d","e","n">>

\* Barq._to_response (200-211) for what fn returned: a generator, or a dict
\* of the arguments fn was given
ToResponse(fn, value) ==
    IF fn \in DOMAIN Generators THEN StreamingJsonResponse(Generators[fn])
    ELSE JsonResponse(value, 200)

\* the handler that Barq._wrap makes of fn (121-124)
WrappedHandler(fn, request, path_params, trace) ==
    CHOOSE handled \in
        {IF r.raised # NoException
         THEN [response |-> <<>>, trace |-> r.trace, raised |-> r.raised]
         ELSE CHOOSE called \in
                  {IF c.raised # NoException
                   THEN [response |-> <<>>, trace |-> c.trace, raised |-> c.raised]
                   ELSE [response |-> <<ToResponse(fn, c.value)>>,
                         trace |-> c.trace, raised |-> NoException] :
                       c \in {Call(fn, r.kwargs, r.trace)}} :
                  TRUE :
             r \in {Resolve(fn, request, path_params, EmptyDict, trace)}} :
        TRUE

\* dispatch of Barq._handle (214-220)
DispatchRequest(list, request, trace) ==
    CHOOSE dispatched \in
        {IF match = <<>>
         THEN [response |-> <<JsonResponse([detail |-> NOT_FOUND], 404)>>,
               trace |-> Append(trace, LookedUp), raised |-> NoException]
         ELSE WrappedHandler(match[1].route.handler, request, match[1].params,
                             Append(trace, LookedUp)) :
             match \in {RouterMatch(list, request.path, request.method)}} :
        TRUE

\* what the middlewares of the application do: "pass" returns what the next
\* handler returns, "block" returns a response of its own without calling
\* the next handler
MiddlewareKinds == {"pass", "block"}

\* a middleware that raises an exception that is no HTTPException
FaultyMiddleware == "raise"

\* faulty variant of ChainOrder: the middlewares are wrapped in the order
\* of registration, so that the last one registered is outermost
ChainOrderUnreversed(mws, i) == Len(mws) + 1 - i

\* the order in which Barq._handle wraps the middlewares (224): the i-th
\* handler of the chain, from the outermost, is that of the middleware
\* registered at this place
ChainOrder(mws, i) == i

\* the chain that Barq._handle builds (223-226), run from its i-th handler
RECURSIVE RunChain(_, _, _, _, _)
RunChain(mws, list, i, request, trace) ==
    IF i > Len(mws) THEN DispatchRequest(list, request, trace)
    ELSE CHOOSE ran \in
             {IF mws[mw] = "block"
              THEN [response |-> <<[status_code |-> 403, content_type |-> "text/plain",
                                    body |-> FORBIDDEN]>>,
                    trace |-> trace \o <<Entered(mw), Left(mw)>>,
                    raised |-> NoException]
              ELSE IF mws[mw] = FaultyMiddleware
              THEN [response |-> <<>>, trace |-> Append(trace, Entered(mw)),
                    raised |-> RaisesOther]
              ELSE CHOOSE returned \in
                       {IF r.raised # NoException THEN r
                        ELSE [r EXCEPT !.trace = Append(@, Left(mw))] :
                            r \in {RunChain(mws, list, i + 1, request,
                                            Append(trace, Entered(mw)))}} :
                       TRUE :
                  mw \in {ChainOrder(mws, i)}} :
             TRUE

\* faulty variant of OnHTTPException: the error is answered as any other
\* exception
OnHTTPExceptionAsOther(e) == JsonResponse([detail |-> INTERNAL_SERVER_ERROR], 500)

\* Barq._handle 227-228: the response made of an HTTPException
OnHTTPException(e) == JsonResponse([detail |-> e.detail], e.status_code)

\* faulty variant of Catches: exceptions other than HTTPException and
\* ValidationError leave Barq._handle
CatchesHTTPOnly(e) == e.raises \in {"HTTPException", "ValidationError"}

\* the except clauses of Barq._handle (227-231) take every exception: the
\* last one is `except Exception`
Catches(e) ==
    e.raises \in {"HTTPException", "ValidationError", "Exception", "TypeError",
                  "JSONDecodeError"}

\* Barq._handle (213-232): the response returned, and what ran; escaped
\* when an exception leaves _handle and nothing is returned
HandleRequest(mws, list, request) ==
    CHOOSE handled \in
        {[request  |-> request,
          trace    |-> r.trace,
          raised   |-> r.raised,
          escaped  |-> r.raised # NoException /\ ~Catches(r.raised),
          response |->
              IF r.raised = NoException THEN r.response[1]
              ELSE IF r.raised.raises = "HTTPException"
              THEN OnHTTPException(r.raised)
              ELSE IF r.raised.raises = "ValidationError"
              THEN JsonResponse([detail |-> r.raised.detail], 422)
              ELSE JsonResponse([detail |-> INTERNAL_SERVER_ERROR], 500)] :
             r \in {RunChain(mws, list, 1, request, <<>>)}} :
        TRUE

(***************************************************************************)
(* What clients send.  A stream is the bytes `bytes` repeated `repeat`     *)
(* times; after its last byte the peer either closes ("eof": recv returns  *)
(* b"") or stays silent ("silent": recv times out after                    *)
(* KEEP_ALIVE_TIMEOUT).                                                    *)
(***************************************************************************)
SP == <<" ">>

CRLF == <<"\r", "\n">>

HTTP11 == <<"H","T","T","P","/","1",".","1">>

RequestLine(method, target) == method \o SP \o target \o SP \o HTTP11 \o CRLF

Header(name, value) == name \o <<":", " ">> \o value \o CRLF

ReqPlain == RequestLine(<<"G","E","T">>, <<"/">>) \o CRLF

ReqClose ==
    RequestLine(<<"g","e","t">>, <<"/","a">>)
        \o Header(<<"C","o","n","n","e","c","t","i","o","n">>, <<"C","l","o","s","e">>)
        \o CRLF

ReqKeepAlive ==
    RequestLine(<<"G","E","T">>, <<"/">>) \o Header(CONNECTION, KEEP_ALIVE) \o CRLF

\* the same header name twice, in two letter cases: close, then upgrade
ReqCloseThenOther ==
    RequestLine(<<"G","E","T">>, <<"/">>)
        \o Header(CONNECTION, CLOSE)
        \o <<"C","O","N","N","E","C","T","I","O","N",":","u","p"," ">> \o CRLF
        \o CRLF

ReqOtherThenClose ==
    RequestLine(<<"G","E","T">>, <<"/">>)
        \o Header(<<"C","o","n","n","e","c","t","i","o","n">>, <<"u","p">>)
        \o <<"c","o","n","n","e","c","t","i","o","n",":","C","L","O","S","E">> \o CRLF
        \o CRLF

ReqBody ==
    RequestLine(<<"P","O","S","T">>, <<"/","p","?","q">>)
        \o Header(<<"C","o","n","t","e","n","t","-","L","e","n","g","t","h">>, <<"3">>)
        \o CRLF \o <<"a", "\r", "\n">>

ReqEmptyBody ==
    RequestLine(<<"P","O","S","T">>, <<"/">>) \o Header(CONTENT_LENGTH, <<"0">>) \o CRLF

ReqTwoFields == <<"G","E","T"," ","/">> \o CRLF \o CRLF

ReqOneField == <<"G","E","T">> \o CRLF \o CRLF

ReqFourFields ==
    <<"G","E","T"," ","/"," ">> \o HTTP11 \o <<" ","x">> \o CRLF \o CRLF

ReqBadHeader ==
    RequestLine(<<"G","E","T">>, <<"/">>) \o <<"n","o","c","o","l","o","n">> \o CRLF \o CRLF

ReqBadLength ==
    RequestLine(<<"P","O","S","T">>, <<"/">>) \o Header(CONTENT_LENGTH, <<"x">>) \o CRLF

\* requests to the application that SpecServe serves
ReqGet(target) == RequestLine(<<"G","E","T">>, target) \o CRLF

ReqGetClose(target) ==
    RequestLine(<<"G","E","T">>, target) \o Header(CONNECTION, CLOSE) \o CRLF

ReqGetKeepAlive(target) ==
    RequestLine(<<"G","E","T">>, target) \o Header(CONNECTION, KEEP_ALIVE) \o CRLF

TWO == <<"/","t","w","o">>

ReqNegLength ==
    RequestLine(<<"P","O","S","T">>, <<"/","p">>)
        \o Header(CONTENT_LENGTH, <<"-","2">>) \o CRLF

Streams ==
    [ negLength     |-> [bytes |-> ReqNegLength \o ReqClose, repeat |-> 1,
                         after |-> "eof"],
      boomThenTwo   |-> [bytes |-> ReqGet(<<"/","b","o","o","m">>) \o ReqGet(TWO),
                         repeat |-> 1, after |-> "eof"],
      reportThenTwo |-> [bytes |-> ReqGet(<<"/","r","e","p","o","r","t">>) \o ReqGet(TWO),
                         repeat |-> 1, after |-> "eof"],
      eventsThenTwo |-> [bytes |-> ReqGet(<<"/","e","v","e","n","t","s">>) \o ReqGet(TWO),
                         repeat |-> 1, after |-> "eof"],
      twoTwice      |-> [bytes |-> ReqGetKeepAlive(TWO) \o ReqGet(TWO), repeat |-> 1,
                         after |-> "silent"],
      twoClose      |-> [bytes |-> ReqGetClose(TWO), repeat |-> 1, after |-> "eof"],
      plain3      |-> [bytes |-> ReqPlain, repeat |-> 3, after |-> "eof"],
      plain1      |-> [bytes |-> ReqPlain, repeat |-> 1, after |-> "silent"],
      closeSecond |-> [bytes |-> ReqPlain \o ReqClose \o ReqPlain, repeat |-> 1,
                       after |-> "silent"],
      closeOnly   |-> [bytes |-> ReqClose, repeat |-> 1, after |-> "eof"],
      bodyFirst   |-> [bytes |-> ReqBody \o ReqKeepAlive, repeat |-> 1,
                       after |-> "silent"],
      bodies      |-> [bytes |-> ReqEmptyBody \o ReqBody \o ReqClose, repeat |-> 1,
                       after |-> "eof"],
      repeated    |-> [bytes |-> ReqCloseThenOther \o ReqOtherThenClose \o ReqPlain,
                       repeat |-> 1, after |-> "eof"],
      twoFields   |-> [bytes |-> ReqPlain \o ReqTwoFields \o ReqPlain, repeat |-> 1,
                       after |-> "eof"],
      oneField    |-> [bytes |-> ReqOneField, repeat |-> 1, after |-> "eof"],
      fourFields  |-> [bytes |-> ReqFourFields \o ReqClose, repeat |-> 1,
                       after |-> "eof"],
      badHeader   |-> [bytes |-> ReqKeepAlive \o ReqBadHeader \o ReqPlain, repeat |-> 1,
                       after |-> "eof"],
      badHeader1  |-> [bytes |-> ReqBadHeader, repeat |-> 1, after |-> "silent"],
      badLength   |-> [bytes |-> ReqPlain \o ReqBadLength \o ReqPlain, repeat |-> 1,
                       after |-> "eof"],
      shortBody   |-> [bytes |-> ReqPlain \o SubSeq(ReqBody, 1, Len(ReqBody) - 1),
                       repeat |-> 1, after |-> "eof"],
      cutLine     |-> [bytes |-> SubSeq(ReqClose, 1, 9), repeat |-> 1,
                       after |-> "silent"],
      nothing     |-> [bytes |-> <<>>, repeat |-> 1, after |-> "eof"],
      idle        |-> [bytes |-> <<>>, repeat |-> 1, after |-> "silent"],
      endless     |-> [bytes |-> ReqPlain, repeat |-> MAX_REQUESTS_PER_CONN + 1,
                       after |-> "silent"] ]

\* every stream but the one of endless keep-alive requests
\* the streams of requests to the application that SpecServe serves
ServedStreams == {"boomThenTwo", "reportThenTwo", "eventsThenTwo", "twoTwice", "twoClose"}

\* the streams sent to a server with any handler
ServerStreams == (DOMAIN Streams) \ ServedStreams

FiniteStreams == ServerStreams \ {"endless"}

StreamLen(s) == Len(Streams[s].bytes) * Streams[s].repeat

StreamByte(s, i) == Streams[s].bytes[((i - 1) % Len(Streams[s].bytes)) + 1]

\* bytes a..b of stream s
StreamSlice(s, a, b) == [k \in 1..(b - a + 1) |-> StreamByte(s, a + k - 1)]

(***************************************************************************)
(* State.  Connections are numbered 1..n, workers 1..N (DOMAIN running).   *)
(***************************************************************************)
VARIABLES
    serving,            \* Server.run is in its accept loop
    queue,              \* the executor's work queue: connections submitted, not started
    running,            \* worker -> the connection whose _handle it runs, 0 when idle
    stream,             \* connection -> the stream its client sends
    fine,               \* connection -> TRUE: recv may return any non-empty part of
                        \*   what is left; FALSE: one whole copy of `bytes` a time
    recvd,              \* connection -> bytes of the stream received so far
    buffer,             \* connection -> SocketReader.buffer
    pc,                 \* connection -> where its _handle stands
    requests_handled,   \* connection -> the local of that name
    req,                \* connection -> the RawRequest being built / the Request
    keep_alive,         \* connection -> the local of that name
    response,           \* connection -> what self.handler returned
    out,                \* connection -> the responses written to the socket
    closes,             \* connection -> number of client.close() calls
    submitted,          \* history: connection -> number of pool.submit calls
    actors,             \* history: connection -> workers that ran a step of it
    iter,               \* history: connection -> loop iterations begun
    parsed,             \* history: connection -> requests HTTPParser.parse returned
    dispatched,         \* history: connection -> self.handler calls
    consumed,           \* history: connection -> bytes the reader handed out
    raw,                \* history: connection -> the lines readline returned in
                        \*   the current loop iteration, in order
    fault,              \* history: connection -> the last exception raised in _handle
    sendFailed,         \* history: connection -> a sendall raised
    root,               \* RadixRouter.root
    registered,         \* history: the add calls made, in order
    lookup,             \* history: the last match call made since the last add
                        \*   call, and what it gave
    routes,             \* Router.routes of the router that Barq holds
    appLookup,          \* history: the last Router.match call made since the
                        \*   last add call, and what it gave
    middlewares,        \* Barq._middlewares
    lastHandle,         \* history: the last Barq._handle call: its request, what
                        \*   ran while it was handled, and the response returned
    served,             \* history: the Barq._handle calls that connection loops
                        \*   made, in order, each with its connection and the
                        \*   loop iteration it was made in
    tasks,              \* stream_parallel: the argument of that name
    workers,            \* stream_parallel: the argument of that name, 0 for None
    cpu_count,          \* what os.cpu_count() returns, 0 for None
    num_workers,        \* stream_parallel: the local of that name
    gen,                \* where the generator stream_parallel returned stands
    futures,            \* index -> the Future that executor.submit returned
    work_queue,         \* the executor's work queue: indices submitted, not started
    finished,           \* as_completed: the futures it is about to yield, in order
    pending,            \* as_completed: the futures it has not yielded
    waiter,             \* as_completed: waiter.finished_futures; installed is
                        \*   whether the waiter is on the futures
    yielded,            \* history: the records the consumer got, in order
    snapshot,           \* history: the futures as_completed found finished
                        \*   when it began
    completed           \* history: the indices in the order their tasks finished

poolVars == <<serving, queue, running, submitted>>

clientVars == <<stream, fine>>

readerVars == <<recvd, buffer, consumed, raw>>

loopVars == <<requests_handled, req, keep_alive, response, iter, parsed, dispatched>>

sockVars == <<out, closes, sendFailed, fault>>

routerVars == <<root, registered, lookup>>

appVars == <<routes, appLookup, middlewares, lastHandle, served>>

parallelVars ==
    <<tasks, workers, cpu_count, num_workers, gen, futures, work_queue, finished,
      pending, waiter, yielded, snapshot, completed>>

\* the largest numbers of connections and of workers of any specification
MaxConns == 3

MaxWorkers == 2

ConnIds == 1..MaxConns

WorkerIds == 1..MaxWorkers

Conns == DOMAIN pc

Workers == DOMAIN running

NoRequest ==
    [method |-> <<>>, path |-> <<>>, query_string |-> <<>>, headers |-> EmptyDict,
     body |-> <<>>]

NoResponse == [kind |-> "none", connection |-> ""]

NoRaw == <<>>

NoLookup == [outcome |-> "none"]

NoHandled == [status |-> 0]

\* RadixRouter.__init__, and no call made yet
InitRouter ==
    /\ root = RadixNode(<<>>, FALSE, <<>>)
    /\ registered = <<>>
    /\ lookup = NoLookup

\* Barq.__init__ (its Router included), and no call made yet
InitApp ==
    /\ routes = <<>>
    /\ appLookup = NoLookup
    /\ middlewares = <<>>
    /\ lastHandle = NoHandled
    /\ served = <<>>

\* stream_parallel is not called
InitNoParallel ==
    /\ tasks = <<>>
    /\ workers = 0
    /\ cpu_count = 0
    /\ num_workers = 0
    /\ gen = "none"
    /\ futures = <<>>
    /\ work_queue = <<>>
    /\ finished = <<>>
    /\ pending = {}
    /\ waiter = [installed |-> FALSE, finished_futures |-> <<>>]
    /\ yielded = <<>>
    /\ snapshot = {}
    /\ completed = <<>>

\* the state once Server.run has bound its socket and started the pool:
\* the connections to come and the workers
InitConnections(nconns, nworkers, streams, grains) ==
    /\ serving = TRUE
    /\ queue = <<>>
    /\ running = [w \in 1..nworkers |-> 0]
    /\ stream \in [1..nconns -> streams]
    /\ fine \in [1..nconns -> grains]
    /\ recvd = [c \in 1..nconns |-> 0]
    /\ buffer = [c \in 1..nconns |-> <<>>]
    /\ pc = [c \in 1..nconns |-> "new"]
    /\ requests_handled = [c \in 1..nconns |-> 0]
    /\ req = [c \in 1..nconns |-> NoRequest]
    /\ keep_alive = [c \in 1..nconns |-> TRUE]
    /\ response = [c \in 1..nconns |-> NoResponse]
    /\ out = [c \in 1..nconns |-> <<>>]
    /\ closes = [c \in 1..nconns |-> 0]
    /\ submitted = [c \in 1..nconns |-> 0]
    /\ actors = [c \in 1..nconns |-> {}]
    /\ iter = [c \in 1..nconns |-> 0]
    /\ parsed = [c \in 1..nconns |-> 0]
    /\ dispatched = [c \in 1..nconns |-> 0]
    /\ consumed = [c \in 1..nconns |-> 0]
    /\ raw = [c \in 1..nconns |-> NoRaw]
    /\ fault = [c \in 1..nconns |-> "none"]
    /\ sendFailed = [c \in 1..nconns |-> FALSE]

\* a server whose handler is not that of an application
InitServer(nconns, nworkers, streams, grains) ==
    /\ InitConnections(nconns, nworkers, streams, grains)
    /\ InitRouter
    /\ InitApp
    /\ InitNoParallel

(***************************************************************************)
(* Server.run (server.py 93-107) and ThreadPool (19-32).                   *)
(***************************************************************************)
\* faulty variant of Enqueue: a work item submitted while no worker is idle is lost
EnqueueUnlessBusy(q, c) ==
    IF \E w \in Workers : running[w] = 0 THEN Append(q, c) ELSE q

\* ThreadPool.submit (27-28): the executor appends the work item to its
\* unbounded FIFO work queue
Enqueue(q, c) == Append(q, c)

\* faulty variant of Dequeue: the work item taken by a worker stays in the queue
DequeueLeaves(q) == q

\* ThreadPool.start (24-25): a worker of the executor removes the work item
\* it takes from the queue
Dequeue(q) == Tail(q)

\* sock.accept() and self.pool.submit(self._handle, client)
Accept(c) ==
    /\ c \in Conns
    /\ serving
    /\ pc[c] = "new"
    /\ pc' = [pc EXCEPT ![c] = "queued"]
    /\ queue' = Enqueue(queue, c)
    /\ submitted' = [submitted EXCEPT ![c] = @ + 1]
    /\ UNCHANGED <<serving, running, actors>>
    /\ UNCHANGED <<clientVars, readerVars, loopVars, sockVars>>
    /\ UNCHANGED <<routerVars, appVars, parallelVars>>

\* KeyboardInterrupt: the accept loop ends; pool.shutdown(wait=True,
\* cancel_futures=False) lets queued and running work finish
Shutdown ==
    /\ serving
    /\ serving' = FALSE
    /\ UNCHANGED <<queue, running, submitted, pc, actors>>
    /\ UNCHANGED <<clientVars, readerVars, loopVars, sockVars>>
    /\ UNCHANGED <<routerVars, appVars, parallelVars>>

\* the test of the while loop of Server._handle (115)
LoopTest(handled) == handled < MAX_REQUESTS_PER_CONN

\* where _handle goes from the top of its loop
LoopTop(handled) == IF LoopTest(handled) THEN "reqline" ELSE "finally"

\* an idle worker takes the oldest work item and runs _handle up to its loop
\* (110-115)
Start(w) ==
    /\ w \in Workers
    /\ running[w] = 0
    /\ queue # <<>>
    /\ LET c == Head(queue)
       IN  /\ running' = [running EXCEPT ![w] = c]
           /\ queue' = Dequeue(queue)
           /\ requests_handled' = [requests_handled EXCEPT ![c] = 0]
           /\ buffer' = [buffer EXCEPT ![c] = <<>>]
           /\ pc' = [pc EXCEPT ![c] = LoopTop(0)]
           /\ iter' = [iter EXCEPT ![c] = IF LoopTest(0) THEN 1 ELSE 0]
           /\ raw' = [raw EXCEPT ![c] = NoRaw]
           /\ actors' = [actors EXCEPT ![c] = @ \cup {w}]
    /\ UNCHANGED <<serving, submitted, clientVars, recvd, consumed, sockVars>>
    /\ UNCHANGED <<req, keep_alive, response, parsed, dispatched>>
    /\ UNCHANGED <<routerVars, appVars, parallelVars>>

(***************************************************************************)
(* SocketReader's blocking reads (server.py 40-60), one recv a step.       *)
(***************************************************************************)
\* the while loops of readline and read: the buffer does not yet hold what
\* the parser asked for
ReaderNeedsData(c) ==
    \/ /\ pc[c] \in {"reqline", "headers"}
       /\ FindCRLF(buffer[c]) = 0
    \/ /\ pc[c] = "body"
       /\ BodyLength(req[c].headers).kind = "read"
       /\ Len(buffer[c]) < BodyLength(req[c].headers).n

\* faulty variant of OnReadFailure: the break leaves _handle without the close
OnReadFailureReturns == "done"

\* faulty variant of OnReadFailure: the failure is not caught at 118 and reaches
\* `except Exception`, which answers 500
OnReadFailureAnswers == "except"

\* 118-119: ConnectionError, TimeoutError and HTTPParseError raised by
\* HTTPParser(reader).parse() are caught and break out of the loop, which
\* leaves the try block for `finally`
OnReadFailure == "finally"

\* what one sock.recv(4096) may return
ChunkSizes(c) ==
    LET left == StreamLen(stream[c]) - recvd[c]
    IN  IF fine[c] THEN 1..Min2(left, RECV_SIZE)
        ELSE {Min2(Min2(Len(Streams[stream[c]].bytes), left), RECV_SIZE)} \ {0}

\* chunk = self.sock.recv(4096); self.buffer.extend(chunk)
RecvData(w) ==
    LET c == IF w \in Workers THEN running[w] ELSE 0
    IN  /\ c # 0
        /\ ReaderNeedsData(c)
        /\ \E n \in ChunkSizes(c) :
              /\ buffer' = [buffer EXCEPT
                               ![c] = @ \o StreamSlice(stream[c], recvd[c] + 1, recvd[c] + n)]
              /\ recvd' = [recvd EXCEPT ![c] = @ + n]
        /\ actors' = [actors EXCEPT ![c] = @ \cup {w}]
        /\ UNCHANGED <<pc, poolVars, clientVars, consumed, raw, loopVars, sockVars>>
        /\ UNCHANGED <<routerVars, appVars, parallelVars>>

\* recv returns b"": ConnectionError("Disconnected"), caught at 118: break
RecvEOF(w) ==
    LET c == IF w \in Workers THEN running[w] ELSE 0
    IN  /\ c # 0
        /\ ReaderNeedsData(c)
        /\ recvd[c] = StreamLen(stream[c])
        /\ Streams[stream[c]].after = "eof"
        /\ pc' = [pc EXCEPT ![c] = OnReadFailure]
        /\ fault' = [fault EXCEPT ![c] = "ConnectionError"]
        /\ actors' = [actors EXCEPT ![c] = @ \cup {w}]
        /\ UNCHANGED <<poolVars, clientVars, readerVars, loopVars>>
        /\ UNCHANGED <<out, closes, sendFailed>>
        /\ UNCHANGED <<routerVars, appVars, parallelVars>>

\* recv raises TimeoutError after KEEP_ALIVE_TIMEOUT, caught at 118: break
RecvTimeout(w) ==
    LET c == IF w \in Workers THEN running[w] ELSE 0
    IN  /\ c # 0
        /\ ReaderNeedsData(c)
        /\ recvd[c] = StreamLen(stream[c])
        /\ Streams[stream[c]].after = "silent"
        /\ pc' = [pc EXCEPT ![c] = OnReadFailure]
        /\ fault' = [fault EXCEPT ![c] = "TimeoutError"]
        /\ actors' = [actors EXCEPT ![c] = @ \cup {w}]
        /\ UNCHANGED <<poolVars, clientVars, readerVars, loopVars>>
        /\ UNCHANGED <<out, closes, sendFailed>>
        /\ UNCHANGED <<routerVars, appVars, parallelVars>>

(***************************************************************************)
(* HTTPParser.parse (http.py 38-44) inside Server._handle (server.py       *)
(* 116-119): HTTPParseError is caught there and ends the loop.             *)
(***************************************************************************)
\* line = self.reader.readline(); _parse_request_line; _split_target
ReadRequestLine(w) ==
    LET c == IF w \in Workers THEN running[w] ELSE 0
    IN  /\ c # 0
        /\ pc[c] = "reqline"
        /\ FindCRLF(buffer[c]) # 0
        /\ \E r \in {ReadlineResult(buffer[c])} :
           \E p \in {ParseRequestLine(r.line)} :
           \E t \in {SplitTarget(p.target)} :
               /\ buffer' = [buffer EXCEPT ![c] = r.buffer]
               /\ consumed' = [consumed EXCEPT ![c] = @ + Len(r.line) + 2]
               /\ raw' = [raw EXCEPT ![c] = Append(@, r.line)]
               /\ IF p.ok
                  THEN /\ req' = [req EXCEPT ![c] =
                                     [method |-> p.method, path |-> t[1],
                                      query_string |-> t[2], headers |-> EmptyDict,
                                      body |-> <<>>]]
                       /\ pc' = [pc EXCEPT ![c] = "headers"]
                       /\ fault' = fault
                  ELSE /\ req' = req
                       /\ pc' = [pc EXCEPT ![c] = OnReadFailure]
                       /\ fault' = [fault EXCEPT ![c] = "HTTPParseError"]
        /\ actors' = [actors EXCEPT ![c] = @ \cup {w}]
        /\ UNCHANGED <<poolVars, clientVars, recvd, out, closes, sendFailed>>
        /\ UNCHANGED <<requests_handled, keep_alive, response, iter, parsed, dispatched>>
        /\ UNCHANGED <<routerVars, appVars, parallelVars>>

\* one turn of the loop of _parse_headers
ReadHeaderLine(w) ==
    LET c == IF w \in Workers THEN running[w] ELSE 0
    IN  /\ c # 0
        /\ pc[c] = "headers"
        /\ FindCRLF(buffer[c]) # 0
        /\ \E r \in {ReadlineResult(buffer[c])} :
           \E h \in {ParseHeaderLine(req[c].headers, r.line)} :
               /\ buffer' = [buffer EXCEPT ![c] = r.buffer]
               /\ consumed' = [consumed EXCEPT ![c] = @ + Len(r.line) + 2]
               /\ raw' = [raw EXCEPT ![c] = Append(@, r.line)]
               /\ IF r.line = <<>>
                  THEN /\ pc' = [pc EXCEPT ![c] = "body"]
                       /\ UNCHANGED <<req, fault>>
                  ELSE IF h.ok
                       THEN /\ req' = [req EXCEPT ![c].headers = h.headers]
                            /\ UNCHANGED <<pc, fault>>
                       ELSE /\ req' = req
                            /\ pc' = [pc EXCEPT ![c] = OnReadFailure]
                            /\ fault' = [fault EXCEPT ![c] = "HTTPParseError"]
        /\ actors' = [actors EXCEPT ![c] = @ \cup {w}]
        /\ UNCHANGED <<poolVars, clientVars, recvd, out, closes, sendFailed>>
        /\ UNCHANGED <<requests_handled, keep_alive, response, iter, parsed, dispatched>>
        /\ UNCHANGED <<routerVars, appVars, parallelVars>>

\* _read_body, then Server._handle 121-130 (the Request, keep_alive).  A
\* ValueError of int() is not caught at 118: it reaches `except Exception`.
ReadBody(w) ==
    LET c == IF w \in Workers THEN running[w] ELSE 0
    IN  /\ c # 0
        /\ pc[c] = "body"
        /\ ~ReaderNeedsData(c)
        /\ \E b \in {BodyLength(req[c].headers)} :
           \E r \in {IF b.kind = "read" THEN ReadResult(buffer[c], b.n)
                      ELSE [data |-> <<>>, buffer |-> buffer[c]]} :
               IF b.kind = "error"
               THEN /\ pc' = [pc EXCEPT ![c] = "except"]
                    /\ fault' = [fault EXCEPT ![c] = "ValueError"]
                    /\ UNCHANGED <<buffer, consumed, req, keep_alive, parsed>>
               ELSE /\ buffer' = [buffer EXCEPT ![c] = r.buffer]
                    /\ consumed' = [consumed EXCEPT ![c] = @ + Len(r.data)]
                    /\ req' = [req EXCEPT ![c].body = r.data]
                    /\ keep_alive' = [keep_alive EXCEPT ![c] = KeepAlive(req[c].headers)]
                    /\ parsed' = [parsed EXCEPT ![c] = @ + 1]
                    /\ pc' = [pc EXCEPT ![c] = "dispatch"]
                    /\ fault' = fault
        /\ actors' = [actors EXCEPT ![c] = @ \cup {w}]
        /\ UNCHANGED <<poolVars, clientVars, recvd, raw, out, closes, sendFailed>>
        /\ UNCHANGED <<requests_handled, response, iter, dispatched>>
        /\ UNCHANGED <<routerVars, appVars, parallelVars>>

(***************************************************************************)
(* Server._handle, from the handler call to the close (server.py 132-151). *)
(***************************************************************************)
\* what self.handler(request) may do: return a Response, return a
\* StreamingResponse (app.py 213), or raise
HandlerResults == {"response", "streaming", "raise"}

\* 134-137: the connection header the loop puts on the handler's response
ResponseConnection(ka) == IF ka THEN "keep-alive" ELSE "close"

\* response = self.handler(request), then 134-137
Dispatch(w) ==
    LET c == IF w \in Workers THEN running[w] ELSE 0
    IN  /\ c # 0
        /\ pc[c] = "dispatch"
        /\ dispatched' = [dispatched EXCEPT ![c] = @ + 1]
        /\ \E result \in HandlerResults :
              IF result = "raise"
              THEN /\ pc' = [pc EXCEPT ![c] = "except"]
                   /\ fault' = [fault EXCEPT ![c] = "HandlerError"]
                   /\ response' = response
              ELSE /\ pc' = [pc EXCEPT ![c] = "write"]
                   /\ fault' = fault
                   /\ response' = [response EXCEPT ![c] =
                                      [kind |-> result,
                                       connection |-> ResponseConnection(keep_alive[c])]]
        /\ actors' = [actors EXCEPT ![c] = @ \cup {w}]
        /\ UNCHANGED <<poolVars, clientVars, readerVars, out, closes, sendFailed>>
        /\ UNCHANGED <<requests_handled, req, keep_alive, iter, parsed>>
        /\ UNCHANGED <<routerVars, appVars, parallelVars>>

\* faulty variant of CountRequest: the request is not counted
CountRequestForgotten(handled) == handled

\* 141: requests_handled += 1
CountRequest(handled) == handled + 1

\* faulty variant of AfterWrite: a close request raises instead of breaking, so
\* that the 500 of `except Exception` follows the response
AfterWriteRaises(ka, handled) == IF ~ka THEN "except" ELSE LoopTop(handled)

\* 142-143 and 115: where the loop goes once a response has been written
AfterWrite(ka, handled) == IF ~ka THEN "finally" ELSE LoopTop(handled)

\* 139-143: write_response(client, ..., response.body); requests_handled += 1.
\* A StreamingResponse has no attribute body (types.py 98-103): AttributeError
\* before anything is sent.  sendall may raise (peer gone, send timeout).
\* Both reach `except Exception`.
Write(w) ==
    LET c == IF w \in Workers THEN running[w] ELSE 0
    IN  /\ c # 0
        /\ pc[c] = "write"
        /\ \E sent \in (IF response[c].kind = "streaming" THEN {"AttributeError"}
                        ELSE {"sent", "OSError"}) :
              IF sent = "sent"
              THEN /\ out' = [out EXCEPT ![c] =
                                 Append(@, [req |-> iter[c], kind |-> "handler",
                                            connection |-> response[c].connection])]
                   /\ requests_handled' = [requests_handled EXCEPT ![c] = CountRequest(@)]
                   /\ pc' = [pc EXCEPT ![c] =
                                AfterWrite(keep_alive[c], CountRequest(requests_handled[c]))]
                   /\ iter' = [iter EXCEPT ![c] =
                                  IF AfterWrite(keep_alive[c], CountRequest(requests_handled[c]))
                                       = "reqline"
                                  THEN @ + 1 ELSE @]
                   /\ raw' = [raw EXCEPT ![c] =
                                 IF AfterWrite(keep_alive[c], CountRequest(requests_handled[c]))
                                      = "reqline"
                                 THEN NoRaw ELSE @]
                   /\ UNCHANGED <<sendFailed, fault>>
              ELSE /\ pc' = [pc EXCEPT ![c] = "except"]
                   /\ sendFailed' = [sendFailed EXCEPT
                                        ![c] = @ \/ sent = "OSError"]
                   /\ fault' = [fault EXCEPT ![c] = sent]
                   /\ UNCHANGED <<out, requests_handled, iter, raw>>
        /\ actors' = [actors EXCEPT ![c] = @ \cup {w}]
        /\ UNCHANGED <<poolVars, clientVars, recvd, buffer, consumed, closes>>
        /\ UNCHANGED <<req, keep_alive, response, parsed, dispatched>>
        /\ UNCHANGED <<routerVars, appVars, parallelVars>>

\* 145-149: write_response(client, 500, {"content-length": "0",
\* "connection": "close"}, b""), a failure of which is swallowed
Except(w) ==
    LET c == IF w \in Workers THEN running[w] ELSE 0
    IN  /\ c # 0
        /\ pc[c] = "except"
        /\ \E sent \in BOOLEAN :
              IF sent
              THEN /\ out' = [out EXCEPT ![c] =
                                 Append(@, [req |-> iter[c], kind |-> "fallback",
                                            connection |-> "close"])]
                   /\ sendFailed' = sendFailed
              ELSE /\ out' = out
                   /\ sendFailed' = [sendFailed EXCEPT ![c] = TRUE]
        /\ pc' = [pc EXCEPT ![c] = "finally"]
        /\ actors' = [actors EXCEPT ![c] = @ \cup {w}]
        /\ UNCHANGED <<poolVars, clientVars, readerVars, loopVars, closes, fault>>
        /\ UNCHANGED <<routerVars, appVars, parallelVars>>

\* 150-151: client.close(); _handle returns and the worker is idle again
Finally(w) ==
    LET c == IF w \in Workers THEN running[w] ELSE 0
    IN  /\ c # 0
        /\ pc[c] = "finally"
        /\ closes' = [closes EXCEPT ![c] = @ + 1]
        /\ pc' = [pc EXCEPT ![c] = "done"]
        /\ running' = [running EXCEPT ![w] = 0]
        /\ actors' = [actors EXCEPT ![c] = @ \cup {w}]
        /\ UNCHANGED <<serving, queue, submitted, out, sendFailed, fault>>
        /\ UNCHANGED <<clientVars, readerVars, loopVars>>
        /\ UNCHANGED <<routerVars, appVars, parallelVars>>

vars ==
    <<serving, queue, running, stream, fine, recvd, buffer, pc, requests_handled,
      req, keep_alive, response, out, closes, submitted, actors, iter, parsed,
      dispatched, consumed, raw, fault, sendFailed, root, registered, lookup,
      routes, appLookup, middlewares, lastHandle, served, tasks, workers,
      cpu_count, num_workers, gen, futures, work_queue, finished, pending, waiter,
      yielded, snapshot, completed>>

Next ==
    \/ \E c \in ConnIds : Accept(c)
    \/ Shutdown
    \/ \E w \in WorkerIds : Start(w)
    \/ \E w \in WorkerIds : RecvData(w)
    \/ \E w \in WorkerIds : RecvEOF(w)
    \/ \E w \in WorkerIds : RecvTimeout(w)
    \/ \E w \in WorkerIds : ReadRequestLine(w)
    \/ \E w \in WorkerIds : ReadHeaderLine(w)
    \/ \E w \in WorkerIds : ReadBody(w)
    \/ \E w \in WorkerIds : Dispatch(w)
    \/ \E w \in WorkerIds : Write(w)
    \/ \E w \in WorkerIds : Except(w)
    \/ \E w \in WorkerIds : Finally(w)

\* one connection, any finite stream, any division into socket reads
Init == InitServer(1, 1, FiniteStreams, BOOLEAN)

Spec == Init /\ [][Next]_vars

\* one connection, every stream (the endless one too), each recv returning
\* one whole copy of the stream's bytes
InitCap == InitServer(1, 1, ServerStreams, {FALSE})

SpecCap == InitCap /\ [][Next]_vars

\* MaxConns connections and MaxWorkers workers: the first client sends one
\* request asking to close, the second connects and sends nothing, the
\* others connect and close at once
PoolStream(c) == IF c = 1 THEN "closeOnly" ELSE IF c = 2 THEN "idle" ELSE "nothing"

InitPool ==
    /\ InitServer(MaxConns, MaxWorkers, ServerStreams, {FALSE})
    /\ stream = [c \in 1..MaxConns |-> PoolStream(c)]

SpecPool == InitPool /\ [][Next]_vars

\* every step of _handle that worker w can take
WorkerStep(w) ==
    \/ Start(w)
    \/ RecvData(w)
    \/ RecvEOF(w)
    \/ RecvTimeout(w)
    \/ ReadRequestLine(w)
    \/ ReadHeaderLine(w)
    \/ ReadBody(w)
    \/ Dispatch(w)
    \/ Write(w)
    \/ Except(w)
    \/ Finally(w)

\* the pool with threads that keep running: a worker that can take a step
\* eventually takes one (a client that sends nothing more is met by the end
\* of its stream or by the timeout of KEEP_ALIVE_TIMEOUT seconds)
FairSpecPool == SpecPool /\ WF_vars(\E w \in WorkerIds : WorkerStep(w))

\* one connection on a thread that keeps running, every stream
FairSpecCap == SpecCap /\ WF_vars(\E w \in WorkerIds : WorkerStep(w))

(***************************************************************************)
(* add and match, called on one RadixRouter and on one Router: every       *)
(* route is registered with both, every lookup made in both.               *)
(***************************************************************************)
\* the largest number of add calls
MaxRoutes == 2

\* the routes registered
Routes ==
    {[path |-> path, method |-> "GET"] :
        path \in { <<"/">>,
                   <<"/","a">>,
                   <<"/","{","x","}">>,
                   <<"/","a","/","b">>,
                   <<"/","a","/","{","y","}">>,
                   <<"/","{","x","}","/","b">>,
                   <<"/","{","x","}","/","{","x","}","/","b">>,
                   <<"/","{","x","}","/","{","y","}","/","b">> }}
        \cup {[path |-> path, method |-> "POST"] :
                 path \in { <<"/","{","y","}">>,
                            <<"/","{","x","}","/","a","/","{","x","}">> }}

\* the route patterns registered
Patterns == {route.path : route \in Routes}

\* the request paths looked up
Paths ==
    { <<"/">>,
      <<"/","a">>,
      <<"/","b">>,
      <<"/","a","/","b">>,
      <<"/","a","/","a">>,
      <<"/","b","/","/","b">>,
      <<"/","a","/">>,
      <<"/","a","/","a","/","a">>,
      <<"/","a","/","b","/","b">>,
      <<"/","b","/","a","/","b">> }

Methods == {"GET", "POST"}

\* the lookups made: every path under GET, two of them under POST
Lookups ==
    {[path |-> path, method |-> "GET"] : path \in Paths}
        \cup {[path |-> path, method |-> "POST"] :
                 path \in {<<"/","a">>, <<"/","a","/","b">>}}

\* RadixRouter.add(path, method, handler, meta) and
\* Router.add(path, method, handler), the handler being named by the number
\* of the call
Add(path, method) ==
    /\ Len(registered) < MaxRoutes
    /\ root' = AddFrom(root, SplitPath(path), 1, method,
                       RouteData(Len(registered) + 1, ParamNames(SplitPath(path))))
    /\ routes' = RouterAdd(routes, path, method, Len(registered) + 1)
    /\ registered' = Append(registered, [path |-> path, method |-> method])
    /\ lookup' = NoLookup
    /\ appLookup' = NoLookup
    /\ UNCHANGED <<middlewares, lastHandle, served>>
    /\ UNCHANGED <<poolVars, clientVars, readerVars, loopVars, sockVars, pc, actors,
                 parallelVars>>

\* faulty variant of TreeAfterMatch: the handlers of the root are lost
TreeAfterMatchLosesHandlers(node) == [node EXCEPT !.handlers = EmptyDict]

\* the tree after RadixRouter.match (58-104 assign to no node)
TreeAfterMatch(node) == node

\* RadixRouter.match(path, method): "route" with the RouteData and the
\* params, "None", or "KeyError" when the del of line 102 raises; and
\* Router.match(path, method): "route" with the Route and the params, or
\* "None".  `again` tells that the call before was made with the same path
\* and method.
Match(path, method) ==
    /\ LET r == MatchRecursive(root, SplitPath(path), 0, method, EmptyDict)
       IN  lookup' = [outcome |-> IF r.raised THEN "KeyError"
                                  ELSE IF r.result = <<>> THEN "None" ELSE "route",
                      path    |-> path,
                      method  |-> method,
                      result  |-> IF r.raised THEN <<>> ELSE r.result,
                      params  |-> IF r.raised \/ r.result = <<>> THEN EmptyDict
                                  ELSE r.params,
                      again   |-> /\ lookup # NoLookup
                                  /\ lookup.path = path
                                  /\ lookup.method = method]
    /\ LET m == RouterMatch(routes, path, method)
       IN  appLookup' = [outcome |-> IF m = <<>> THEN "None" ELSE "route",
                         path    |-> path,
                         method  |-> method,
                         result  |-> IF m = <<>> THEN <<>> ELSE <<m[1].route>>,
                         params  |-> IF m = <<>> THEN EmptyDict ELSE m[1].params]
    /\ root' = TreeAfterMatch(root)
    /\ UNCHANGED <<registered, routes, middlewares, lastHandle, served>>
    /\ UNCHANGED <<poolVars, clientVars, readerVars, loopVars, sockVars, pc, actors,
                 parallelVars>>

NextRouter ==
    \/ \E route \in Routes : Add(route.path, route.method)
    \/ \E l \in Lookups : Match(l.path, l.method)

\* a router alone: no connection, no worker
SpecRouter == InitServer(0, 0, {}, {}) /\ [][NextRouter]_vars

(***************************************************************************)
(* One Barq application: routes and middlewares are registered, and        *)
(* Barq._handle is called with requests.                                   *)
(***************************************************************************)
\* the largest number of middlewares
MaxMiddlewares == 2

\* the routes that the application registers
AppRoutes ==
    { [path |-> <<"/","i","t","e","m","s","/","{","i","d","}">>, method |-> "GET", fn |-> "get_item"],
      [path |-> <<"/","i","t","e","m","s","/","n","e","w">>, method |-> "GET", fn |-> "new_item"],
      [path |-> <<"/","t","w","o">>, method |-> "GET", fn |-> "two"],
      [path |-> <<"/","m","i","x","e","d">>, method |-> "GET", fn |-> "mixed"],
      [path |-> <<"/","d","i","a","m","o","n","d">>, method |-> "GET", fn |-> "diamond"],
      [path |-> <<"/","m","i","s","s","i","n","g">>, method |-> "GET", fn |-> "missing"],
      [path |-> <<"/","s","e","c","u","r","e">>, method |-> "GET", fn |-> "secure"],
      [path |-> <<"/","b","o","o","m">>, method |-> "GET", fn |-> "boom"],
      [path |-> <<"/","s","e","a","r","c","h">>, method |-> "GET", fn |-> "search"],
      [path |-> <<"/","i","t","e","m","s">>, method |-> "POST", fn |-> "create_item"] }

\* the bodies of the requests: none, a valid Item, an Item whose field is
\* no integer, an Item without its field, JSON that is no object, and
\* bytes that are no JSON
Bodies ==
    { <<>>,
      <<"{","\"","n","\"",":","1","}">>,
      <<"{","\"","n","\"",":","\"","x","\"","}">>,
      <<"{","}">>,
      <<"n","u","l","l">>,
      <<"{","\"","n","\"",":">> }

\* the requests that the application is given
AppRequests ==
    {[method |-> "GET", path |-> path, body |-> <<>>] :
        path \in { <<"/","i","t","e","m","s","/","n","e","w">>, <<"/","i","t","e","m","s","/","4","2">>, <<"/","i","t","e","m","s","/">>, <<"/","t","w","o">>, <<"/","d","i","a","m","o","n","d">>,
                   <<"/","m","i","x","e","d">>,
                   <<"/","m","i","s","s","i","n","g">>, <<"/","s","e","c","u","r","e">>, <<"/","b","o","o","m">>,
                   <<"/","s","e","a","r","c","h">> }}
        \cup {[method |-> "POST", path |-> <<"/","i","t","e","m","s","/","n","e","w">>,
               body |-> <<>>]}
        \cup {[method |-> "POST", path |-> <<"/","i","t","e","m","s">>, body |-> body] :
                  body \in Bodies}

\* Barq._route (96-100): the decorator registers the wrapped fn
AddRoute(path, method, fn) ==
    /\ Len(routes) < MaxRoutes
    /\ routes' = RouterAdd(routes, path, method, fn)
    /\ lastHandle' = NoHandled
    /\ UNCHANGED <<middlewares, appLookup, served, routerVars>>
    /\ UNCHANGED <<poolVars, clientVars, readerVars, loopVars, sockVars, pc, actors,
                 parallelVars>>

\* Barq.add_middleware (106-107)
AddMiddleware(kind) ==
    /\ Len(middlewares) < MaxMiddlewares
    /\ middlewares' = Append(middlewares, kind)
    /\ lastHandle' = NoHandled
    /\ UNCHANGED <<routes, appLookup, served, routerVars>>
    /\ UNCHANGED <<poolVars, clientVars, readerVars, loopVars, sockVars, pc, actors,
                 parallelVars>>

\* Barq._handle(request)
Handle(request) ==
    /\ lastHandle' = HandleRequest(middlewares, routes, request)
    /\ UNCHANGED <<routes, middlewares, appLookup, served, routerVars>>
    /\ UNCHANGED <<poolVars, clientVars, readerVars, loopVars, sockVars, pc, actors,
                 parallelVars>>

NextApp ==
    \/ \E route \in AppRoutes : AddRoute(route.path, route.method, route.fn)
    \/ \E kind \in MiddlewareKinds : AddMiddleware(kind)
    \/ \E request \in AppRequests : Handle(request)

\* an application alone: no connection, no worker
SpecApp == InitServer(0, 0, {}, {}) /\ [][NextApp]_vars

(***************************************************************************)
(* A server whose handler is Barq._handle (Barq.run, app.py 243-250): the  *)
(* routes and the middlewares were registered before the server started.   *)
(***************************************************************************)
GET == <<"G","E","T">>

\* the routes of the application served, in the order of registration
ServedRoutes ==
    RouterAdd(RouterAdd(RouterAdd(RouterAdd(<<>>,
        TWO, GET, "two"),
        <<"/","b","o","o","m">>, GET, "boom"),
        <<"/","r","e","p","o","r","t">>, GET, "report"),
        <<"/","e","v","e","n","t","s">>, GET, "events")

\* the middlewares of the application served: none, one that calls the
\* next handler, or one that raises
ServedMiddlewares == {<<>>, <<"pass">>, <<FaultyMiddleware>>}

\* response = self.handler(request) with Barq._handle as the handler, then
\* server.py 134-137
DispatchApp(w) ==
    LET c == IF w \in Workers THEN running[w] ELSE 0
    IN  /\ c # 0
        /\ pc[c] = "dispatch"
        /\ dispatched' = [dispatched EXCEPT ![c] = @ + 1]
        /\ \E h \in {HandleRequest(middlewares, routes, req[c])} :
              /\ lastHandle' = h
              /\ served' = Append(served, [conn |-> c, iter |-> iter[c], handled |-> h])
              /\ IF h.escaped
                 THEN /\ pc' = [pc EXCEPT ![c] = "except"]
                      /\ fault' = [fault EXCEPT ![c] = "HandlerError"]
                      /\ response' = response
                 ELSE /\ pc' = [pc EXCEPT ![c] = "write"]
                      /\ fault' = fault
                      /\ response' = [response EXCEPT ![c] =
                                         [kind |-> IF "iterator" \in DOMAIN h.response
                                                   THEN "streaming" ELSE "response",
                                          connection |-> ResponseConnection(keep_alive[c])]]
        /\ actors' = [actors EXCEPT ![c] = @ \cup {w}]
        /\ UNCHANGED <<poolVars, clientVars, readerVars, out, closes, sendFailed>>
        /\ UNCHANGED <<requests_handled, req, keep_alive, iter, parsed>>
        /\ UNCHANGED <<routes, appLookup, middlewares, routerVars, parallelVars>>

NextServe ==
    \/ \E c \in ConnIds : Accept(c)
    \/ Shutdown
    \/ \E w \in WorkerIds : Start(w)
    \/ \E w \in WorkerIds : RecvData(w)
    \/ \E w \in WorkerIds : RecvEOF(w)
    \/ \E w \in WorkerIds : RecvTimeout(w)
    \/ \E w \in WorkerIds : ReadRequestLine(w)
    \/ \E w \in WorkerIds : ReadHeaderLine(w)
    \/ \E w \in WorkerIds : ReadBody(w)
    \/ \E w \in WorkerIds : DispatchApp(w)
    \/ \E w \in WorkerIds : Write(w)
    \/ \E w \in WorkerIds : Except(w)
    \/ \E w \in WorkerIds : Finally(w)

\* the stream of each client: any stream of requests to the application on
\* the first connection, one request that asks to close on the others
InitServe ==
    /\ InitConnections(MaxWorkers, MaxWorkers, ServedStreams, {FALSE})
    /\ \A c \in DOMAIN stream : c > 1 => stream[c] = "twoClose"
    /\ InitRouter
    /\ routes = ServedRoutes
    /\ appLookup = NoLookup
    /\ middlewares \in ServedMiddlewares
    /\ lastHandle = NoHandled
    /\ served = <<>>
    /\ InitNoParallel

\* MaxWorkers connections to the application, and as many workers
SpecServe == InitServe /\ [][NextServe]_vars

(***************************************************************************)
(* stream_parallel (types.py 176-194), with ThreadPoolExecutor and         *)
(* as_completed of concurrent.futures as it uses them.  Positions in       *)
(* tasks and in futures count from 1; the index of a record counts from 0  *)
(* as enumerate does.                                                      *)
(***************************************************************************)
\* the largest number of tasks of a call
MaxTasks == 3

StrValue(text) == [type |-> "str", val |-> text]

NoExc == [class |-> "", args |-> <<>>]

\* a callable without arguments that returns value
TaskReturns(value) == [value |-> value, exception |-> NoExc]

\* a callable without arguments that raises class(*args)
TaskRaises(class, args) ==
    [value |-> JsonNone, exception |-> [class |-> class, args |-> args]]

TaskKinds ==
    { TaskReturns(StrValue(<<"a">>)),
      TaskRaises("ValueError", <<>>),
      TaskRaises("RuntimeError", << <<"x">> >>),
      TaskRaises("KeyError", << <<"k">> >>) }

\* str(e) of an exception made with no argument or with one str argument:
\* the empty text, the argument, and for a KeyError the argument's repr
ExceptionStr(e) ==
    IF e.args = <<>> THEN <<>>
    ELSE IF e.class = "KeyError" THEN <<"'">> \o e.args[1] \o <<"'">>
    ELSE e.args[1]

\* faulty variant of IsException: the except clause catches nothing
CatchesNothing(class) == FALSE

\* `except Exception` (193): the classes derived from Exception
IsException(class) == class \in {"ValueError", "RuntimeError", "KeyError"}

\* workers or min(len(tasks), os.cpu_count() or 4)   (184)
NumWorkers(w, ntasks, cpus) ==
    IF w # 0 THEN w
    ELSE IF ntasks <= (IF cpus # 0 THEN cpus ELSE 4) THEN ntasks
    ELSE IF cpus # 0 THEN cpus ELSE 4

PendingFuture == [state |-> "PENDING", result |-> JsonNone, exception |-> NoExc]

\* _WorkItem.run: the worker keeps what the task returned or raised in the
\* future
FinishedFuture(task) ==
    [state |-> "FINISHED", result |-> task.value, exception |-> task.exception]

\* faulty variant of FutureRecord: the error of a task that raised is dropped
FutureRecordWithoutError(idx, future) ==
    [index |-> idx, result |-> future.result, error |-> JsonNone]

\* the body of the loop (189-194), for a future whose exception, if any,
\* the except clause catches
FutureRecord(idx, future) ==
    IF future.exception = NoExc
    THEN [index |-> idx, result |-> future.result, error |-> JsonNone]
    ELSE [index |-> idx, result |-> JsonNone,
          error |-> StrValue(ExceptionStr(future.exception))]

\* the orders in which a set of futures can be iterated
Orderings(fs) ==
    { order \in [1..Cardinality(fs) -> fs] :
          \A a, b \in 1..Cardinality(fs) : order[a] = order[b] => a = b }

\* faulty variant of AddResult: a future that finishes is not reported
AddResultLost(w, i) == w

\* _AsCompletedWaiter.add_result, called by a future that finishes while
\* the waiter is installed on it
AddResult(w, i) ==
    IF w.installed
    THEN [w EXCEPT !.finished_futures = Append(w.finished_futures, i)]
    ELSE w

Running == {i \in DOMAIN futures : futures[i].state = "RUNNING"}

Finished == {i \in DOMAIN futures : futures[i].state = "FINISHED"}

\* the consumer's first next(): the generator starts, computes num_workers
\* and makes the executor, which refuses max_workers <= 0 with ValueError
FirstNext ==
    /\ gen = "created"
    /\ num_workers' = NumWorkers(workers, Len(tasks), cpu_count)
    /\ gen' = IF num_workers' <= 0 THEN "raised" ELSE "submit"
    /\ UNCHANGED <<tasks, workers, cpu_count, futures, work_queue, finished,
                   pending, waiter, yielded, snapshot, completed>>
    /\ UNCHANGED <<poolVars, clientVars, readerVars, loopVars, sockVars, pc, actors>>
    /\ UNCHANGED <<routerVars, appVars>>

\* executor.submit(task) of the dict comprehension (187), task by task
SubmitTask ==
    /\ gen = "submit"
    /\ Len(futures) < Len(tasks)
    /\ futures' = Append(futures, PendingFuture)
    /\ work_queue' = Append(work_queue, Len(futures) + 1)
    /\ UNCHANGED <<tasks, workers, cpu_count, num_workers, gen, finished,
                   pending, waiter, yielded, snapshot, completed>>
    /\ UNCHANGED <<poolVars, clientVars, readerVars, loopVars, sockVars, pc, actors>>
    /\ UNCHANGED <<routerVars, appVars>>

\* a worker thread of the executor, of which there are at most num_workers,
\* takes the first work item of the queue
TakeWork(i) ==
    /\ work_queue # <<>>
    /\ i = Head(work_queue)
    /\ Cardinality(Running) < num_workers
    /\ work_queue' = Tail(work_queue)
    /\ futures' = [futures EXCEPT ![i].state = "RUNNING"]
    /\ UNCHANGED <<tasks, workers, cpu_count, num_workers, gen, finished,
                   pending, waiter, yielded, snapshot, completed>>
    /\ UNCHANGED <<poolVars, clientVars, readerVars, loopVars, sockVars, pc, actors>>
    /\ UNCHANGED <<routerVars, appVars>>

\* the task returns or raises in its worker thread
RunTask(i) ==
    /\ i \in Running
    /\ futures' = [futures EXCEPT ![i] = FinishedFuture(tasks[i])]
    /\ waiter' = AddResult(waiter, i)
    /\ completed' = Append(completed, i)
    /\ UNCHANGED <<tasks, workers, cpu_count, num_workers, gen, work_queue,
                   finished, pending, yielded, snapshot>>
    /\ UNCHANGED <<poolVars, clientVars, readerVars, loopVars, sockVars, pc, actors>>
    /\ UNCHANGED <<routerVars, appVars>>

\* as_completed(futures) starts (188): under the lock of every future it
\* takes those that finished already, as a set, and installs its waiter
AsCompleted ==
    /\ gen = "submit"
    /\ Len(futures) = Len(tasks)
    /\ \E order \in Orderings(Finished) : finished' = order
    /\ pending' = DOMAIN futures \ Finished
    /\ snapshot' = Finished
    /\ waiter' = [installed |-> TRUE, finished_futures |-> <<>>]
    /\ gen' = "drain"
    /\ UNCHANGED <<tasks, workers, cpu_count, num_workers, futures, work_queue,
                   yielded, completed>>
    /\ UNCHANGED <<poolVars, clientVars, readerVars, loopVars, sockVars, pc, actors>>
    /\ UNCHANGED <<routerVars, appVars>>

\* as_completed hands out the next future of its list and the body of the
\* loop yields its record (189-194); an exception that the except clause
\* does not catch leaves the generator through the with statement
YieldNext ==
    /\ gen = "drain"
    /\ finished # <<>>
    /\ \E i \in {Head(finished)} :
          /\ finished' = Tail(finished)
          /\ pending' = pending \ {i}
          /\ IF futures[i].exception # NoExc
                 /\ ~IsException(futures[i].exception.class)
             THEN /\ gen' = "unwind"
                  /\ UNCHANGED yielded
             ELSE /\ gen' = "suspended"
                  /\ yielded' = Append(yielded, FutureRecord(i - 1, futures[i]))
    /\ UNCHANGED <<tasks, workers, cpu_count, num_workers, futures, work_queue,
                   waiter, snapshot, completed>>
    /\ UNCHANGED <<poolVars, clientVars, readerVars, loopVars, sockVars, pc, actors>>
    /\ UNCHANGED <<routerVars, appVars>>

\* the consumer's next() after a record: the generator goes on
Resume ==
    /\ gen = "suspended"
    /\ gen' = "drain"
    /\ UNCHANGED <<tasks, workers, cpu_count, num_workers, futures, work_queue,
                   finished, pending, waiter, yielded, snapshot, completed>>
    /\ UNCHANGED <<poolVars, clientVars, readerVars, loopVars, sockVars, pc, actors>>
    /\ UNCHANGED <<routerVars, appVars>>

\* as_completed has futures left and waits for the waiter's event, then
\* takes the futures reported since, in the order they finished
Wake ==
    /\ gen = "drain"
    /\ finished = <<>>
    /\ pending # {}
    /\ waiter.finished_futures # <<>>
    /\ finished' = waiter.finished_futures
    /\ waiter' = [waiter EXCEPT !.finished_futures = <<>>]
    /\ UNCHANGED <<tasks, workers, cpu_count, num_workers, gen, futures,
                   work_queue, pending, yielded, snapshot, completed>>
    /\ UNCHANGED <<poolVars, clientVars, readerVars, loopVars, sockVars, pc, actors>>
    /\ UNCHANGED <<routerVars, appVars>>

\* the with statement is left (186): executor.shutdown(wait=True) joins the
\* worker threads, which first run every work item, and the generator ends
ExecutorExit ==
    /\ gen \in {"drain", "unwind"}
    /\ gen = "drain" => finished = <<>> /\ pending = {}
    /\ Finished = DOMAIN futures
    /\ gen' = IF gen = "unwind" THEN "raised" ELSE "exhausted"
    /\ waiter' = [waiter EXCEPT !.installed = FALSE]
    /\ UNCHANGED <<tasks, workers, cpu_count, num_workers, futures, work_queue,
                   finished, pending, yielded, snapshot, completed>>
    /\ UNCHANGED <<poolVars, clientVars, readerVars, loopVars, sockVars, pc, actors>>
    /\ UNCHANGED <<routerVars, appVars>>

WorkerThread == \E i \in 1..MaxTasks : TakeWork(i) \/ RunTask(i)

Generator == SubmitTask \/ AsCompleted \/ YieldNext \/ Wake \/ ExecutorExit

Consumer == FirstNext \/ Resume

NextParallel ==
    \/ FirstNext
    \/ SubmitTask
    \/ \E i \in 1..MaxTasks : TakeWork(i)
    \/ \E i \in 1..MaxTasks : RunTask(i)
    \/ AsCompleted
    \/ YieldNext
    \/ Resume
    \/ Wake
    \/ ExecutorExit

\* stream_parallel(tasks, workers) was called and returned its generator;
\* os.cpu_count() is called only when workers is None or 0
InitParallel ==
    /\ InitConnections(0, 0, {}, {})
    /\ InitRouter
    /\ InitApp
    /\ \E n \in 0..MaxTasks : tasks \in [1..n -> TaskKinds]
    /\ workers \in 0..MaxWorkers
    /\ cpu_count \in IF workers = 0 THEN {0, MaxWorkers} ELSE {0}
    /\ num_workers = 0
    /\ gen = "created"
    /\ futures = <<>>
    /\ work_queue = <<>>
    /\ finished = <<>>
    /\ pending = {}
    /\ waiter = [installed |-> FALSE, finished_futures |-> <<>>]
    /\ yielded = <<>>
    /\ snapshot = {}
    /\ completed = <<>>

\* one call of stream_parallel and a consumer that asks when it likes
SpecParallel == InitParallel /\ [][NextParallel]_vars

\* the worker threads run, the tasks end, and the consumer iterates to
\* the end
FairSpecParallel ==
    /\ SpecParallel
    /\ WF_vars(WorkerThread)
    /\ WF_vars(Generator)
    /\ WF_vars(Consumer)

(***************************************************************************)
(* Properties of the connection loop.                                      *)
(***************************************************************************)
\* the request's connection header equals "close" up to letter case, said
\* letter by letter
SaysClose(headers) ==
    /\ CONNECTION \in DOMAIN headers
    /\ Len(headers[CONNECTION]) = Len(CLOSE)
    /\ \A i \in 1..Len(CLOSE) :
          headers[CONNECTION][i] \in {CLOSE[i], UpperCh(CLOSE[i])}

\* the positions in out[c] of the responses written in loop iteration k
ResponsesTo(c, k) == {i \in 1..Len(out[c]) : out[c][i].req = k}

\* this step writes the handler's response (server.py 139)
WritesHandlerResponse(c) ==
    /\ Len(out'[c]) = Len(out[c]) + 1
    /\ out'[c][Len(out'[c])].kind = "handler"

C1_Step ==
    \A c \in Conns :
        WritesHandlerResponse(c) =>
            IF SaysClose(req[c].headers)
            THEN pc'[c] = "finally"
            ELSE Len(out'[c]) < MAX_REQUESTS_PER_CONN =>
                     /\ pc'[c] = "reqline"
                     /\ closes'[c] = 0

\* once the loop of a connection is over nothing is received, read, parsed,
\* dispatched or written on it any more, and its socket is closed
C1_Over ==
    \A c \in Conns :
        pc[c] \in {"finally", "done"} =>
            /\ pc'[c] \in {"finally", "done"}
            /\ recvd'[c] = recvd[c]
            /\ consumed'[c] = consumed[c]
            /\ parsed'[c] = parsed[c]
            /\ dispatched'[c] = dispatched[c]
            /\ out'[c] = out[c]
            /\ pc'[c] = "done" => closes'[c] = 1

\* C1: once the handler's response to a request whose connection header is
\* "close" in any letter case has been written, the loop is over: no further
\* request is read or parsed and the socket is closed; once the handler's
\* response to a request with no connection header, or any other value, has
\* been written and fewer than MAX_REQUESTS_PER_CONN responses have been,
\* the loop awaits the next request on the open socket.
C1_ConnectionHeaderDecides == [][C1_Step /\ C1_Over]_vars

\* a connection served two requests, the second asking "Close" with a
\* capital, and was closed with the bytes of a third request unread
C1_Witness ==
    \E c \in Conns :
        /\ pc[c] = "done"
        /\ closes[c] = 1
        /\ Len(out[c]) = 2
        /\ out[c][1] = [req |-> 1, kind |-> "handler", connection |-> "keep-alive"]
        /\ out[c][2].kind = "handler"
        /\ parsed[c] = 2
        /\ SaysClose(req[c].headers)
        /\ req[c].headers[CONNECTION] # CLOSE
        /\ buffer[c] # <<>>

\* the part of C2 that is about order: responses are written in the order
\* of the requests, never two for one request, and a request is parsed only
\* when every earlier request has been dispatched and has had the handler's
\* response written
C2_Serialized ==
    \A c \in Conns :
        /\ \A i \in 1..(Len(out[c]) - 1) : out[c][i].req < out[c][i + 1].req
        /\ \A i \in 1..Len(out[c]) : out[c][i].req \in 1..iter[c]
        /\ dispatched[c] <= parsed[c]
        /\ parsed[c] <= dispatched[c] + 1
        /\ \A k \in 1..(parsed[c] - 1) :
              /\ k <= Len(out[c])
              /\ out[c][k].req = k
              /\ out[c][k].kind = "handler"
        /\ pc[c] \in {"reqline", "headers", "body"} =>
              /\ parsed[c] = iter[c] - 1
              /\ Len(out[c]) = iter[c] - 1

\* the statement of C2 as made: when the loop has ended every parsed
\* request has had exactly one response written
C2_ExactlyOneResponse ==
    /\ C2_Serialized
    /\ \A c \in Conns :
          pc[c] = "done" =>
              \A k \in 1..parsed[c] : Cardinality(ResponsesTo(c, k)) = 1

\* C2 (amended): requests on one connection are strictly serialized;
\* responses are written in the order of the requests; request k+1 is not
\* parsed or dispatched before the response to request k was written; at
\* most one response is written per parsed request, and exactly one unless
\* a write to the socket fails.
C2_Amended ==
    /\ C2_Serialized
    /\ \A c \in Conns :
          \A k \in 1..parsed[c] :
              /\ Cardinality(ResponsesTo(c, k)) <= 1
              /\ (pc[c] \in {"finally", "done"} /\ ~sendFailed[c])
                     => Cardinality(ResponsesTo(c, k)) = 1

\* three requests were parsed and answered, one after the other
C2_Witness ==
    \E c \in Conns :
        /\ pc[c] = "done"
        /\ ~sendFailed[c]
        /\ parsed[c] = 3
        /\ Len(out[c]) = 3
        /\ dispatched[c] = 3

\* C3: never more than MAX_REQUESTS_PER_CONN responses are written on a
\* connection, and once that many have been the loop is over (no further
\* iteration, no further request) and the socket is closed, whatever the
\* requests asked for; the loop's counter is the number of handler
\* responses written.
C3_RequestCap ==
    \A c \in Conns :
        /\ Len(out[c]) <= MAX_REQUESTS_PER_CONN
        /\ Len(out[c]) = MAX_REQUESTS_PER_CONN =>
              /\ pc[c] \in {"finally", "done"}
              /\ iter[c] = MAX_REQUESTS_PER_CONN
              /\ parsed[c] = MAX_REQUESTS_PER_CONN
              /\ pc[c] = "done" => closes[c] = 1
        /\ requests_handled[c] =
              Len(out[c]) - (IF out[c] # <<>> /\ out[c][Len(out[c])].kind = "fallback"
                             THEN 1 ELSE 0)

\* the cap was reached by keep-alive requests, with more to come
C3_Witness ==
    \E c \in Conns :
        /\ Len(out[c]) = MAX_REQUESTS_PER_CONN
        /\ pc[c] = "done"
        /\ closes[c] = 1
        /\ ~SaysClose(req[c].headers)
        /\ out[c][MAX_REQUESTS_PER_CONN].req = MAX_REQUESTS_PER_CONN
        /\ recvd[c] < StreamLen(stream[c])

ReadFaults == {"HTTPParseError", "TimeoutError", "ConnectionError"}

\* C4: when reading a request fails with a parse error of the request line
\* or of a header line, a timeout or a disconnect, the loop ends and the
\* socket is closed; nothing is written for that request (only the earlier
\* requests have responses), no request is produced and the handler is not
\* called for it.
C4_ReadFailureDropsConnection ==
    \A c \in Conns :
        fault[c] \in ReadFaults =>
            /\ pc[c] \in {"finally", "done"}
            /\ pc[c] = "done" => closes[c] = 1
            /\ ResponsesTo(c, iter[c]) = {}
            /\ Len(out[c]) = iter[c] - 1
            /\ parsed[c] = iter[c] - 1
            /\ dispatched[c] = iter[c] - 1

\* a malformed header line in the second request of a connection
C4_Witness ==
    \E c \in Conns :
        /\ fault[c] = "HTTPParseError"
        /\ pc[c] = "done"
        /\ iter[c] = 2
        /\ Len(out[c]) = 1
        /\ Len(raw[c]) = 2

(***************************************************************************)
(* Properties of the pool.                                                 *)
(***************************************************************************)
\* the positions of _handle between its first line and its return
InHandle == {"reqline", "headers", "body", "dispatch", "write", "except", "finally"}

\* C5: a connection is submitted to the pool exactly once when accepted;
\* only one worker ever takes a step of its _handle, from the first read to
\* the close; no two workers run the same connection, and a connection is
\* not both waiting and running.
C5_OneWorkerOwnsConnection ==
    /\ \A c \in Conns :
          /\ submitted[c] = (IF pc[c] = "new" THEN 0 ELSE 1)
          /\ Cardinality(actors[c]) <= 1
          /\ pc[c] \in InHandle =>
                \E w \in Workers : running[w] = c /\ actors[c] = {w}
          /\ pc[c] \in {"new", "queued"} => actors[c] = {}
          /\ Cardinality({i \in 1..Len(queue) : queue[i] = c})
                = (IF pc[c] = "queued" THEN 1 ELSE 0)
    /\ \A v, w \in Workers : (v # w /\ running[v] # 0) => running[v] # running[w]

\* a connection on which a request was parsed, dispatched and answered is
\* done, all by one worker, while the other worker served another one
C5_Witness ==
    \E c, d \in Conns :
        /\ c # d
        /\ pc[c] = "done"
        /\ Len(out[c]) = 1
        /\ dispatched[c] = 1
        /\ Cardinality(actors[c]) = 1
        /\ Cardinality(actors[d]) = 1
        /\ actors[c] # actors[d]

C6_Bounded ==
    /\ Cardinality({c \in Conns : pc[c] \in InHandle}) <= Cardinality(Workers)
    /\ \A c \in Conns :
          pc[c] = "queued" =>
              /\ \E i \in 1..Len(queue) : queue[i] = c
              /\ closes[c] = 0
              /\ recvd[c] = 0

\* a connection stops waiting only by being taken by an idle worker, which
\* enters _handle with the socket still open
C6_Step ==
    \A c \in Conns :
        (pc[c] = "queued" /\ pc'[c] # "queued") =>
            /\ \E w \in Workers : running[w] = 0 /\ running'[w] = c
            /\ pc'[c] \in InHandle
            /\ closes'[c] = 0

\* C6: never more connections are inside _handle than the pool has
\* workers; an accepted connection that is not running waits in the queue,
\* its socket open and unread; it leaves the queue only to be run by a
\* worker; and again and again no accepted connection is left waiting, so
\* that every waiting connection is eventually run by a worker.
C6_WaitingConnectionsAreServed ==
    /\ []C6_Bounded
    /\ [][C6_Step]_vars
    /\ []<>(\A c \in Conns : pc[c] # "queued")

\* every worker is inside _handle and a connection waits
C6_Witness ==
    \E c \in Conns :
        /\ pc[c] = "queued"
        /\ \A w \in Workers : running[w] # 0 /\ pc[running[w]] \in InHandle

(***************************************************************************)
(* Properties of the wire parser.                                          *)
(***************************************************************************)
\* the loop iteration of connection c holds the request it parsed
HoldsRequest(c) == pc[c] \in {"dispatch", "write"}

\* C7: a parsed request with content-length N >= 0 has as body exactly the
\* N bytes of the client's stream that follow the CRLF CRLF ending its
\* headers, however the stream was divided into socket reads; what was
\* received after them is all in the reader's buffer, in order.
C7_BodyIsExactlyContentLength ==
    \A c \in Conns :
        (/\ HoldsRequest(c)
         /\ BodyLength(req[c].headers).kind = "read"
         /\ BodyLength(req[c].headers).n >= 0)
        => LET n == BodyLength(req[c].headers).n
               e == consumed[c] - n
           IN  /\ e >= 4
               /\ StreamSlice(stream[c], e - 3, e) = CRLF \o CRLF
               /\ Len(req[c].body) = n
               /\ req[c].body = StreamSlice(stream[c], e + 1, e + n)
               /\ buffer[c] = StreamSlice(stream[c], e + n + 1, recvd[c])

\* a body of three bytes holding a CRLF, received byte-wise or in pieces,
\* with bytes of the next request already received
C7_Witness ==
    \E c \in Conns :
        /\ pc[c] = "dispatch"
        /\ fine[c]
        /\ BodyLength(req[c].headers) = [kind |-> "read", n |-> 3]
        /\ req[c].body = <<"a", "\r", "\n">>
        /\ buffer[c] # <<>>
        /\ recvd[c] < StreamLen(stream[c])

\* the number of fields of a request line, its fields being delimited by
\* single spaces
FieldCount(line) == Cardinality({i \in 1..Len(line) : line[i] = " "}) + 1

HeaderLines(c) ==
    SelectSeq(SubSeq(raw[c], 2, Len(raw[c])), LAMBDA l : l # <<>>)

\* key and value of a header line, as C9 words them
KeyOf(l) == [i \in 1..(Find(l, ":") - 1) |-> LowerCh(l[i])]

ValueOf(l) == Strip(SubSeq(l, Find(l, ":") + 1, Len(l)))

\* C9: while and after the headers of a request are read, the headers held
\* are exactly those of the header lines read: the keys are the lowercased
\* texts before the first ":", and the value of a key is the trimmed text
\* after the first ":" of the last line with that key; reading stops at the
\* first empty line; a non-empty header line without ":" raises
\* HTTPParseError and no request is produced.
C9_HeadersAsParsed ==
    \A c \in Conns :
        LET hl == HeaderLines(c)
        IN  /\ (pc[c] = "headers" \/ pc[c] = "body" \/ HoldsRequest(c)) =>
                /\ \A i \in 1..Len(hl) : Find(hl[i], ":") # 0
                /\ DOMAIN req[c].headers = {KeyOf(hl[i]) : i \in 1..Len(hl)}
                /\ \A i \in 1..Len(hl) :
                      (\A j \in (i + 1)..Len(hl) : KeyOf(hl[j]) # KeyOf(hl[i]))
                          => req[c].headers[KeyOf(hl[i])] = ValueOf(hl[i])
                /\ \A i \in 2..(Len(raw[c]) - 1) : raw[c][i] # <<>>
                /\ pc[c] = "headers" <=> (Len(raw[c]) = 1 \/ raw[c][Len(raw[c])] # <<>>)
            /\ (\E i \in 1..Len(hl) : Find(hl[i], ":") = 0) =>
                /\ fault[c] = "HTTPParseError"
                /\ pc[c] \in {"finally", "done"}
                /\ parsed[c] = iter[c] - 1
                /\ Find(hl[Len(hl)], ":") = 0

\* "Connection: close" then "CONNECTION:up ": the request parsed holds the
\* one key connection with the trimmed value of the second line
C9_Witness ==
    \E c \in Conns :
        /\ pc[c] = "dispatch"
        /\ Len(HeaderLines(c)) = 2
        /\ KeyOf(HeaderLines(c)[1]) = KeyOf(HeaderLines(c)[2])
        /\ HeaderLines(c)[1] # HeaderLines(c)[2]
        /\ HeaderLines(c)[2][Len(HeaderLines(c)[2])] = " "
        /\ req[c].headers = (CONNECTION :> <<"u", "p">>)
        /\ keep_alive[c]

(***************************************************************************)
(* Properties of RadixRouter.                                              *)
(***************************************************************************)
\* the segments of the pattern of the k-th add call
PatternOf(k) == SplitPath(registered[k].path)

\* the pattern of the k-th add call matches the path segment by segment
PatternMatches(k, segments) ==
    /\ Len(PatternOf(k)) = Len(segments)
    /\ \A i \in 1..Len(segments) :
          IsParam(PatternOf(k)[i]) \/ PatternOf(k)[i] = segments[i]

\* the add calls whose pattern and method match the lookup
Candidates ==
    {k \in 1..Len(registered) :
        /\ registered[k].method = lookup.method
        /\ PatternMatches(k, SplitPath(lookup.path))}

\* the place in the tree of the k-th add call: its literal segments, and
\* <<>> where it goes through a parameterized child
PlaceOf(k) ==
    [i \in 1..Len(PatternOf(k)) |->
        IF IsParam(PatternOf(k)[i]) THEN <<>> ELSE PatternOf(k)[i]]

\* place p goes through a literal child where it first parts from place q
LiteralFirst(p, q) ==
    \E i \in 1..Len(p) :
        /\ \A j \in 1..(i - 1) : p[j] = q[j]
        /\ p[i] # q[i]
        /\ p[i] # <<>>

C12_FullMatchOrNone ==
    lookup # NoLookup =>
        /\ lookup.outcome = "route" => lookup.result[1].handler \in Candidates
        /\ Candidates = {} => lookup.outcome = "None"

\* a step that is a match call on both routers leaves the tree and the
\* routes as they were, and a call made with the path and method of the
\* call before gives what that call gave
C13_Step ==
    lookup' # NoLookup =>
        /\ root' = root
        /\ routes' = routes
        /\ registered' = registered
        /\ lookup'.again =>
              /\ lookup'.outcome = lookup.outcome
              /\ lookup'.result = lookup.result
              /\ lookup'.params = lookup.params
              /\ appLookup' = appLookup

RECURSIVE NodesBelow(_, _, _)
NodesBelow(node, segs, i) ==
    IF i > Len(segs) THEN <<>>
    ELSE LET child == IF IsParam(segs[i]) THEN node.param_child[1]
                      ELSE node.children[segs[i]]
         IN  <<child>> \o NodesBelow(child, segs, i + 1)

\* the bindings that the parameterized nodes on the way to the route of
\* the k-th add call make for the path looked up: <<name, segment>>, one
\* for each such node
BindingsOf(k) ==
    LET nodes == NodesBelow(root, PatternOf(k), 1)
    IN  {<<i, nodes[i].param_name, SplitPath(lookup.path)[i]>> :
            i \in {n \in 1..Len(nodes) : nodes[n].is_param}}

\* C14: the params returned with a route hold one binding for each
\* parameterized node on the way from the root to the matched node, the
\* name of the node bound to the segment consumed there, and nothing else.
C14_BindingsOfThePath ==
    (lookup # NoLookup /\ lookup.outcome = "route") =>
        LET bindings == BindingsOf(lookup.result[1].handler)
        IN  /\ Cardinality(DOMAIN lookup.params) = Cardinality(bindings)
            /\ \A b \in bindings :
                  /\ b[2] \in DOMAIN lookup.params
                  /\ lookup.params[b[2]] = b[3]

\* the add calls whose pattern goes through the same place of the tree as
\* that of the k-th add call, up to its i-th segment
ThroughPlace(k, i) ==
    {n \in 1..Len(registered) :
        /\ Len(PatternOf(n)) >= i
        /\ \A j \in 1..i : PlaceOf(n)[j] = PlaceOf(k)[j]}

\* the parameter name that the last of these add calls used there
LastNameAt(k, i) ==
    LET last == CHOOSE n \in ThroughPlace(k, i) : \A o \in ThroughPlace(k, i) : n >= o
    IN  ParamName(PatternOf(last)[i])

\* no pattern registered uses a parameter name twice
NamesUsedOnce ==
    \A k \in 1..Len(registered) :
        \A i, j \in 1..Len(ParamNames(PatternOf(k))) :
            i # j => ParamNames(PatternOf(k))[i] # ParamNames(PatternOf(k))[j]

\* C15: a node has at most one parameterized child, and a match through a
\* parameterized node binds the segment under the parameter name of the
\* last pattern registered through that place of the tree (stated for
\* patterns that use each of their names once).
C15_LastRegisteredNameBinds ==
    (lookup # NoLookup /\ lookup.outcome = "route" /\ NamesUsedOnce) =>
        LET h     == lookup.result[1].handler
            nodes == NodesBelow(root, PatternOf(h), 1)
        IN  \A i \in 1..Len(nodes) :
                /\ Len(nodes[i].param_child) <= 1
                /\ nodes[i].is_param =>
                      /\ LastNameAt(h, i) \in DOMAIN lookup.params
                      /\ lookup.params[LastNameAt(h, i)] = SplitPath(lookup.path)[i]

(***************************************************************************)
(* Properties of the application's routing.                                *)
(***************************************************************************)
\* the segments of a path or pattern, empty ones kept
SegmentsOf(path) == Tail(SplitOn(path, "/"))

\* the route has a {name} segment
IsParameterized(route) ==
    \E i \in 1..Len(SegmentsOf(route.path)) : IsParam(SegmentsOf(route.path)[i])

\* the route is registered for the method of the request and its pattern
\* matches the path of the request segment by segment, a {name} segment
\* matching one non-empty segment
Covers(route, request) ==
    /\ route.method = request.method
    /\ Len(SegmentsOf(route.path)) = Len(SegmentsOf(request.path))
    /\ \A i \in 1..Len(SegmentsOf(route.path)) :
          \/ SegmentsOf(route.path)[i] = SegmentsOf(request.path)[i]
          \/ /\ IsParam(SegmentsOf(route.path)[i])
             /\ SegmentsOf(request.path)[i] # <<>>

\* a request was handled and reached the router
Dispatched ==
    /\ lastHandle # NoHandled
    /\ \E n \in 1..Len(lastHandle.trace) : lastHandle.trace[n] = LookedUp

\* fn was called while the request was handled
Invoked(fn) ==
    \E n \in 1..Len(lastHandle.trace) : lastHandle.trace[n] = Called(fn)

\* C11: when the request dispatched matches a registered literal route and
\* a registered parameterized route, the handler of the literal route is
\* invoked and that of the parameterized route is not, in whichever order
\* the two were registered.
C11_LiteralRouteInvoked ==
    Dispatched =>
        \A i, j \in 1..Len(routes) :
            (/\ ~IsParameterized(routes[i])
             /\ IsParameterized(routes[j])
             /\ Covers(routes[i], lastHandle.request)
             /\ Covers(routes[j], lastHandle.request))
                => /\ Invoked(routes[i].handler)
                   /\ ~Invoked(routes[j].handler)

\* the calls made while the request was handled
CallsMade ==
    {n \in 1..Len(lastHandle.trace) : lastHandle.trace[n].ev = "call"}

\* C16: a {name} segment matches exactly one non-empty segment: a handler
\* or dependency is called only for a request that a registered route
\* covers, segment by segment, and a path parameter given to the handler
\* is one non-empty segment of the path; a request dispatched that no registered route covers gets the
\* response 404 {"detail": "Not Found"}, and nothing is called for it.
C16_NotFound ==
    Dispatched =>
        /\ (\A i \in 1..Len(routes) : ~Covers(routes[i], lastHandle.request))
               => /\ lastHandle.response = JsonResponse([detail |-> NOT_FOUND], 404)
                  /\ lastHandle.response.status_code = 404
                  /\ CallsMade = {}
        /\ (CallsMade # {} \/ lastHandle.response.status_code # 404)
               => \E i \in 1..Len(routes) : Covers(routes[i], lastHandle.request)
        /\ \A fn \in {"get_item"} :
               (Invoked(fn) /\ lastHandle.raised = NoException)
                   => \E n \in 1..Len(SegmentsOf(lastHandle.request.path)) :
                         /\ SegmentsOf(lastHandle.request.path)[n] # <<>>
                         /\ lastHandle.response.body.args[<<"i","d">>].args
                                = SegmentsOf(lastHandle.request.path)[n]

\* GET /items/ with only GET /items/{id} registered: 404, nothing called
C16_Witness ==
    /\ Dispatched
    /\ Len(routes) = 1
    /\ routes[1].handler = "get_item"
    /\ lastHandle.request.method = "GET"
    /\ SegmentsOf(lastHandle.request.path) = << <<"i","t","e","m","s">>, <<>> >>
    /\ lastHandle.response.status_code = 404
    /\ CallsMade = {}

(***************************************************************************)
(* Properties of dependency resolution.                                    *)
(***************************************************************************)
\* the handler fn was called with its arguments and returned
Answered(fn) ==
    /\ Dispatched
    /\ lastHandle.raised = NoException
    /\ lastHandle.response.status_code = 200
    /\ lastHandle.response.body.of = fn

\* the pairs of parameters of fn declared as the same dependency
SharedDependencies(fn) ==
    {<<i, j>> \in (1..Len(Functions[fn].params)) \X (1..Len(Functions[fn].params)) :
        /\ i < j
        /\ Functions[fn].params[i].kind = "Depends"
        /\ Functions[fn].params[j].kind = "Depends"
        /\ Functions[fn].params[i].fn = Functions[fn].params[j].fn}

\* C17: when two parameters of the handler called are declared as the same
\* dependency, the dependency callable is called exactly once while the
\* request is handled and both parameters are given the same value.
C17_SharedDependencyCalledOnce ==
    \A fn \in DOMAIN Functions :
        Answered(fn) =>
            \A pair \in SharedDependencies(fn) :
                /\ CallsOf(Functions[fn].params[pair[1]].fn, lastHandle.trace) = 1
                /\ lastHandle.response.body.args[Functions[fn].params[pair[1]].name]
                       = lastHandle.response.body.args[Functions[fn].params[pair[2]].name]

\* C18: while one request is handled no dependency callable is called more
\* than once, by whatever parameters it is reached.
C18_EveryDependencyCalledOnce ==
    lastHandle # NoHandled =>
        \A fn \in DOMAIN Functions : CallsOf(fn, lastHandle.trace) <= 1

(***************************************************************************)
(* Properties of the middleware chain.                                     *)
(***************************************************************************)
\* the middlewares that return without calling the next handler
Blockers == {i \in 1..Len(middlewares) : middlewares[i] = "block"}

\* the number of middlewares entered: all, or those up to the first blocker
EnteredCount ==
    IF Blockers = {} THEN Len(middlewares)
    ELSE CHOOSE i \in Blockers : \A j \in Blockers : i <= j

\* C19: the request enters the middlewares in the order of registration;
\* the router lookup and the handler run only after the last middleware
\* has called the next handler; control returns through the last
\* middleware first and the first one last; and a middleware that returns
\* without calling the next handler keeps the later middlewares, the
\* lookup and the handler from running.
C19_MiddlewareOrder ==
    lastHandle # NoHandled =>
        LET t == lastHandle.trace
            e == EnteredCount
        IN  /\ Len(t) >= e
            /\ \A n \in 1..e : t[n] = Entered(n)
            /\ \A n \in (e + 1)..Len(t) : t[n].ev # "enter"
            /\ Blockers # {} =>
                  /\ Len(t) = 2 * e
                  /\ \A n \in 1..e : t[e + n] = Left(e + 1 - n)
            /\ Blockers = {} =>
                  /\ Len(t) > e
                  /\ t[e + 1] = LookedUp
                  /\ lastHandle.raised = NoException =>
                        /\ Len(t) > 2 * e
                        /\ \A n \in 1..e : t[Len(t) - e + n] = Left(e + 1 - n)
                        /\ \A n \in (e + 1)..(Len(t) - e) : t[n].ev \in {"lookup", "call"}
                  /\ lastHandle.raised # NoException =>
                        \A n \in (e + 1)..Len(t) : t[n].ev \in {"lookup", "call"}

\* two middlewares that call the next handler, and a handler that ran
C19_Witness ==
    /\ lastHandle # NoHandled
    /\ middlewares = <<"pass", "pass">>
    /\ Len(lastHandle.trace) = 6
    /\ lastHandle.trace[1] = Entered(1)
    /\ lastHandle.trace[2] = Entered(2)
    /\ lastHandle.trace[3] = LookedUp
    /\ lastHandle.trace[4].ev = "call"
    /\ lastHandle.trace[5] = Left(2)
    /\ lastHandle.trace[6] = Left(1)

(***************************************************************************)
(* Properties of the error responses.                                      *)
(***************************************************************************)
\* the functions that raise HTTPException when called
HTTPRaisers == {fn \in DOMAIN Functions : Functions[fn].does.raises = "HTTPException"}

\* C20: when a handler or a dependency called for the request raises
\* HTTPException(S, D), the response has status code S and the JSON body
\* {"detail": D}.
C20_HTTPExceptionEnvelope ==
    lastHandle # NoHandled =>
        \A fn \in HTTPRaisers :
            Invoked(fn) =>
                /\ lastHandle.response.status_code = Functions[fn].does.status_code
                /\ lastHandle.response.content_type = "application/json"
                /\ lastHandle.response.body = [detail |-> Functions[fn].does.detail]

\* a dependency raised 401 behind a middleware, and the handler was not
\* called
C20_Witness ==
    /\ lastHandle # NoHandled
    /\ middlewares # <<>>
    /\ Invoked("auth")
    /\ ~Invoked("secure")
    /\ lastHandle.response.status_code = 401
    /\ lastHandle.response.body = [detail |-> UNAUTHORIZED]

(***************************************************************************)
(* Properties of parameter resolution.                                     *)
(***************************************************************************)
\* the parameters of the route's handler that no source supplies: no
\* dependency, no path parameter of the route (and the model has no query
\* value and no default)
Unresolvable(route) ==
    {i \in 1..Len(Functions[route.handler].params) :
        /\ Functions[route.handler].params[i].kind = "plain"
        /\ \A n \in 1..Len(route.param_names) :
               route.param_names[n] # Functions[route.handler].params[i].name}

\* C26: a handler with a required parameter that no source can supply is
\* refused when its route is registered, so that no request is dispatched
\* to such a route and no request handled fails because an argument of a
\* handler is missing.
C26_UnresolvableRefusedAtRegistration ==
    lastHandle # NoHandled =>
        /\ \A i \in 1..Len(routes) :
               Invoked(routes[i].handler) => Unresolvable(routes[i]) = {}
        /\ lastHandle.raised.raises # "TypeError"

(***************************************************************************)
(* Properties of what the middlewares see.                                 *)
(***************************************************************************)
\* C29: when every middleware calls the next handler, the response that
\* Barq._handle returns is the value that the first-registered middleware
\* returned, the last of the chain to return, also when the handler or a
\* dependency raised and the response is an error response.
C29_FirstMiddlewareReturnsTheResponse ==
    (lastHandle # NoHandled /\ middlewares # <<>> /\ Blockers = {}) =>
        /\ lastHandle.trace[Len(lastHandle.trace)] = Left(1)
        /\ \A i \in 1..Len(middlewares) :
               \E n \in 1..Len(lastHandle.trace) : lastHandle.trace[n] = Left(i)

(***************************************************************************)
(* Properties of payload validation.                                       *)
(***************************************************************************)
\* the parameters of fn declared with a pydantic model
ModelParams(fn) ==
    {i \in 1..Len(Functions[fn].params) : Functions[fn].params[i].kind = "model"}

\* the body of the request is well-formed JSON that validates as model
ValidPayload(request, model) ==
    /\ request.body # <<>>
    /\ JsonLoads(request.body).ok
    /\ ModelValidate(model, JsonLoads(request.body).value) = <<>>

\* the request handled was dispatched to a route of fn
RoutedTo(fn) ==
    /\ Dispatched
    /\ \E i \in 1..Len(routes) :
          /\ routes[i].handler = fn
          /\ Covers(routes[i], lastHandle.request)
          /\ \A j \in 1..(i - 1) : ~Covers(routes[j], lastHandle.request)

\* C22: when the body of the request cannot be turned into a valid value
\* of the payload type of the handler it is routed to (a field fails
\* validation, the body is missing, or the bytes are no well-formed JSON),
\* the response has status 422 and the body {"detail": errors}, a
\* non-empty list of field-level errors, and the handler is not invoked.
C22_InvalidPayloadIs422 ==
    \A fn \in DOMAIN Functions :
        \A i \in ModelParams(fn) :
            (RoutedTo(fn) /\ ~ValidPayload(lastHandle.request, Functions[fn].params[i].fn)) =>
                /\ lastHandle.response.status_code = 422
                /\ lastHandle.response.content_type = "application/json"
                /\ DOMAIN lastHandle.response.body = {"detail"}
                /\ lastHandle.response.body.detail # <<>>
                /\ \A n \in 1..Len(lastHandle.response.body.detail) :
                       lastHandle.response.body.detail[n].type
                           \in {"model_type", "missing", "int_type", "int_parsing"}
                /\ ~Invoked(fn)

(***************************************************************************)
(* Properties of a server whose handler is Barq._handle.                   *)
(***************************************************************************)
\* the calls of Barq._handle in which a handler, a dependency or a
\* middleware raised something that is neither an HTTPException nor a
\* ValidationError
Faulted ==
    {n \in 1..Len(served) :
        served[n].handled.raised.raises
            \notin {"", "HTTPException", "ValidationError"}}

\* the responses written on connection c in its loop iteration k
WrittenFor(c, k) == SelectSeq(out[c], LAMBDA o : o.req = k)

\* the loop of connection c is past its iteration k, or over
PastIteration(c, k) == iter[c] > k \/ pc[c] \in {"finally", "done"}

\* C21: when a handler, a dependency or a middleware raises a fault that
\* is neither an HTTPException nor a ValidationError, Barq._handle returns
\* the response 500 {"detail": "Internal Server Error"}; the fault does
\* not reach the connection loop; and unless writing to the socket fails,
\* that response is what is written for the request, and on a keep-alive
\* connection the loop goes on to the next request.
C21_FaultIs500AndLoopGoesOn ==
    \A n \in Faulted :
        LET c == served[n].conn
            k == served[n].iter
        IN  /\ ~served[n].handled.escaped
            /\ served[n].handled.response
                   = JsonResponse([detail |-> INTERNAL_SERVER_ERROR], 500)
            /\ fault[c] # "HandlerError"
            /\ (iter[c] = k /\ ~sendFailed[c]) => pc[c] \in {"write", "reqline", "finally", "done"}
            /\ (PastIteration(c, k) /\ ~sendFailed[c]) =>
                   /\ Len(WrittenFor(c, k)) = 1
                   /\ WrittenFor(c, k)[1].kind = "handler"
                   /\ WrittenFor(c, k)[1].connection = "keep-alive" => iter[c] > k

\* a keep-alive connection on which the handler of the first request
\* raised, the 500 was written, and the second request was handled and
\* answered
C21_Witness ==
    /\ 1 \in Faulted
    /\ served[1].conn = 1
    /\ served[1].handled.raised.raises = "Exception"
    /\ \E n \in 1..Len(served) :
          /\ served[n].conn = 1
          /\ served[n].iter = 2
          /\ served[n].handled.response.status_code = 200
    /\ Len(out[1]) = 2
    /\ out[1][1] = [req |-> 1, kind |-> "handler", connection |-> "keep-alive"]
    /\ out[1][2] = [req |-> 2, kind |-> "handler", connection |-> "keep-alive"]

\* the calls of Barq._handle that returned a StreamingResponse
Streamed ==
    {n \in 1..Len(served) :
        /\ ~served[n].handled.escaped
        /\ "iterator" \in DOMAIN served[n].handled.response}

\* C23: when the handler returns a streaming response, the connection loop
\* writes its status line and headers once, with transfer-encoding:
\* chunked, and then one chunk for each item that the producer yields, in
\* order.  Unless writing to the socket fails, what is written for the
\* request is therefore the handler's response and never the fallback
\* 500, and no exception is raised in the loop.
C23_StreamingResponseIsWritten ==
    \A n \in Streamed :
        LET c == served[n].conn
            k == served[n].iter
        IN  /\ served[n].handled.response.transfer_encoding = "chunked"
            /\ fault[c] # "AttributeError"
            /\ (PastIteration(c, k) /\ ~sendFailed[c]) =>
                   /\ Len(WrittenFor(c, k)) = 1
                   /\ WrittenFor(c, k)[1].kind = "handler"

\* the calls of Barq._handle in which fn was called and returned a value
\* that became the response
AnsweredBy(fn) ==
    {n \in 1..Len(served) :
        /\ served[n].handled.raised = NoException
        /\ served[n].handled.response.status_code = 200
        /\ "body" \in DOMAIN served[n].handled.response
        /\ served[n].handled.response.body.of = fn}

\* C30: every request parsed gets a Request of its own and a dependency
\* cache of its own.  Nothing of an earlier request of the connection is
\* in the Request, and for every request whose handler is given the value
\* of a dependency, on whatever connection and after whatever other
\* requests, the dependency callable was called while this request was
\* handled and the value given is the one that this call returned.
C30_FreshPerRequest ==
    /\ \A n \in 1..Len(served) :
           stream[served[n].conn] = "twoTwice" =>
               /\ served[n].handled.request.path = TWO
               /\ served[n].iter = 1 =>
                      served[n].handled.request.headers
                          = DictPut(EmptyDict, CONNECTION, KEEP_ALIVE)
               /\ served[n].iter = 2 =>
                      served[n].handled.request.headers = EmptyDict
    /\ \A fn \in DOMAIN Functions :
           \A n \in AnsweredBy(fn) :
               \A i \in 1..Len(Functions[fn].params) :
                   Functions[fn].params[i].kind = "Depends" =>
                       LET given == served[n].handled.response.body.args[
                                        Functions[fn].params[i].name]
                       IN  /\ given.of = Functions[fn].params[i].fn
                           /\ given.call \in 1..CallsOf(given.of, served[n].handled.trace)

\* two requests on one connection and one on another, each answered by
\* the handler two after a call of get_db of its own
C30_Witness ==
    /\ Cardinality(AnsweredBy("two")) = 3
    /\ \E a, b \in AnsweredBy("two") :
          /\ a < b
          /\ served[a].conn = 1 /\ served[b].conn = 1
          /\ served[a].iter = 1 /\ served[b].iter = 2
    /\ \E a \in AnsweredBy("two") : served[a].conn = 2
    /\ \A a \in AnsweredBy("two") : CallsOf("get_db", served[a].handled.trace) = 1

(***************************************************************************)
(* Properties of SocketReader.                                             *)
(***************************************************************************)
\* the bytes of the stream of connection c after those that its reader
\* has handed out, up to position b
Unread(c, b) == StreamSlice(stream[c], consumed[c] + 1, b)

\* what the reader has handed out and what it holds are the bytes received
C27_Buffered ==
    \A c \in Conns :
        /\ consumed[c] + Len(buffer[c]) = recvd[c]
        /\ buffer[c] = Unread(c, recvd[c])

\* a call of readline or read hands out the next bytes of the stream, and
\* the same ones as when all of the stream had been received before the
\* call: what is returned does not depend on where the socket reads ended
C27_Step ==
    \A c \in Conns :
        /\ consumed'[c] >= consumed[c]
        /\ (pc[c] \in {"reqline", "headers"} /\ Len(raw'[c]) = Len(raw[c]) + 1) =>
              /\ SubSeq(raw'[c], 1, Len(raw[c])) = raw[c]
              /\ raw'[c][Len(raw'[c])] \o CRLF = Unread(c, consumed'[c])
              /\ raw'[c][Len(raw'[c])]
                     = ReadlineResult(Unread(c, StreamLen(stream[c]))).line
        /\ (pc[c] = "body" /\ pc'[c] = "dispatch") =>
              /\ req'[c].body = Unread(c, consumed'[c])
              /\ req'[c].body
                     = IF BodyLength(req[c].headers).kind = "read"
                       THEN ReadResult(Unread(c, StreamLen(stream[c])),
                                       BodyLength(req[c].headers).n).data
                       ELSE <<>>

\* C27: SocketReader conserves the byte stream.  The data returned so far
\* (each line with the CRLF that was stripped) followed by the buffer is
\* the bytes received so far, in order; so the bytes of a following
\* request that came with the end of the previous one stay in the buffer
\* and are parsed as the next request, and what each readline and read
\* returns, hence the sequence of requests parsed, depends on the stream
\* alone, not on how it was split into socket reads.
C27_ReaderConservesStream == []C27_Buffered /\ [][C27_Step]_vars

(***************************************************************************)
(* Properties of stream_parallel.                                          *)
(***************************************************************************)
\* the positions in the yielded sequence of the records of task i
RecordsOf(i) == {k \in 1..Len(yielded) : yielded[k].index = i - 1}

\* the record agrees with what its task did: a value returned is the result
\* and there is no error, a raise gives an error and no result
RecordTellsTask(record, task) ==
    IF task.exception = NoExc
    THEN record.result = task.value /\ record.error = JsonNone
    ELSE record.result = JsonNone /\ record.error # JsonNone

\* C24: for every non-empty list of tasks and every completion order,
\* stream_parallel yields exactly len(tasks) records; each index
\* 0..len(tasks)-1 is in exactly one record; the record of a task that
\* returned carries the value as result and no error, that of a task that
\* raised an error and no result
C24_OneRecordPerTask ==
    tasks # <<>> =>
        /\ gen # "raised"
        /\ \A k \in 1..Len(yielded) :
              /\ yielded[k].index \in 0..(Len(tasks) - 1)
              /\ RecordsOf(yielded[k].index + 1) = {k}
              /\ RecordTellsTask(yielded[k], tasks[yielded[k].index + 1])
        /\ gen = "exhausted" =>
              /\ Len(yielded) = Len(tasks)
              /\ \A i \in 1..Len(tasks) : Cardinality(RecordsOf(i)) = 1

\* tasks [A returns, B raises, C returns] are through, and the first record
\* was that of C
C24_Witness ==
    /\ gen = "exhausted"
    /\ Len(tasks) = 3
    /\ tasks[1].exception = NoExc
    /\ tasks[2].exception # NoExc
    /\ tasks[3].exception = NoExc
    /\ Len(yielded) = 3
    /\ yielded[1].index = 2
    /\ yielded[1].error = JsonNone
    /\ \E k \in 2..3 : yielded[k].index = 1 /\ yielded[k].result = JsonNone

\* the tasks of the call that raise
Raising == {i \in 1..Len(tasks) : tasks[i].exception # NoExc}

\* task j has a sibling that raises
HasRaisingSibling(j) == Raising \ {j} # {}

\* the generator has ended, by StopIteration or by an exception
Ended == gen \in {"exhausted", "raised"}

\* once the generator has ended, every task that has a raising sibling has
\* run to its end and has its own record
C25_SiblingsThrough ==
    Ended =>
        \A j \in 1..Len(tasks) :
            HasRaisingSibling(j) =>
                /\ j \in Finished
                /\ \E k \in 1..Len(yielded) :
                      /\ RecordsOf(j) = {k}
                      /\ RecordTellsTask(yielded[k], tasks[j])

\* a step in which a task ends by raising leaves every other future, the
\* work queue and the generator as they were, and no future ever goes back
C25_Step ==
    /\ \A i \in DOMAIN futures :
          /\ i \in DOMAIN futures'
          /\ futures[i].state = "RUNNING" => futures'[i].state \in {"RUNNING", "FINISHED"}
          /\ futures[i].state = "FINISHED" => futures'[i] = futures[i]
    /\ \A i \in Raising :
          (i \in Running /\ i \in Finished') =>
              /\ \A j \in DOMAIN futures \ {i} : futures'[j] = futures[j]
              /\ work_queue' = work_queue
              /\ gen' = gen
              /\ yielded' = yielded

\* C25: a task that raises never aborts its siblings: every other submitted
\* task is still started, runs to completion and has its own record yielded
\* with its own result, whether the failing task fails before, while or
\* after the others run
C25_RaisingTaskLeavesSiblings ==
    /\ []C25_SiblingsThrough
    /\ [][C25_Step]_vars
    /\ \A j \in 1..MaxTasks :
          (j \in DOMAIN futures /\ HasRaisingSibling(j))
              ~> (j \in Finished /\ RecordsOf(j) # {})

\* of three tasks on two workers the raising one ended second, after one
\* sibling had ended and before the other did, and both siblings' records
\* are out with their results
C25_Witness ==
    /\ gen = "exhausted"
    /\ Len(tasks) = 3
    /\ Raising = {1}
    /\ num_workers = 2
    /\ completed = <<2, 1, 3>>
    /\ \A j \in {2, 3} :
          \E k \in 1..Len(yielded) :
              yielded[k].index = j - 1 /\ yielded[k].result = tasks[j].value

\* the place of task i in the order in which the tasks finished, 0 while it
\* has not finished
CompletedAt(i) ==
    CHOOSE k \in 0..Len(completed) :
        IF \E n \in 1..Len(completed) : completed[n] = i
        THEN k # 0 /\ completed[k] = i
        ELSE k = 0

\* the task of the k-th record yielded
TaskOf(k) == yielded[k].index + 1

\* the finished tasks whose record has not been yielded
Unyielded == {i \in Finished : RecordsOf(i) = {}}

\* a record is yielded only after its task has finished
YieldedAfterFinish == \A k \in 1..Len(yielded) : TaskOf(k) \in Finished

\* while a finished task's record is not yet yielded the generator is not
\* waiting: it can hand out a record whatever the unfinished tasks do
NotHeldBack ==
    (gen = "drain" /\ Unyielded # {}) => ENABLED (YieldNext \/ Wake)

\* the sequence ends only after all submitted tasks have completed
EndsAfterAll ==
    Ended => Finished = DOMAIN futures /\ work_queue = <<>>

\* the records come in the order in which their tasks finished
InCompletionOrder ==
    \A p, q \in 1..Len(yielded) :
        p < q => CompletedAt(TaskOf(p)) < CompletedAt(TaskOf(q))

\* the records of the tasks found finished when as_completed began come
\* first, and the records of the other tasks are in completion order
InCompletionOrderAfterSnapshot ==
    \A p, q \in 1..Len(yielded) :
        p < q =>
            /\ TaskOf(q) \in snapshot => TaskOf(p) \in snapshot
            /\ (TaskOf(p) \notin snapshot /\ TaskOf(q) \notin snapshot) =>
                  CompletedAt(TaskOf(p)) < CompletedAt(TaskOf(q))

\* C28: stream_parallel yields records in completion order, not submission
\* order: a record is yielded only after its task has finished, a finished
\* task's record is yielded without waiting for tasks submitted earlier
\* that are still running, and the sequence ends only after all submitted
\* tasks have completed
C28_CompletionOrder ==
    /\ InCompletionOrder
    /\ YieldedAfterFinish
    /\ NotHeldBack
    /\ EndsAfterAll

\* C28 as amended: completion order holds of the records of the tasks that
\* finish after as_completed has begun; the records of the tasks that had
\* finished before come first, in any order
C28_Amended ==
    /\ InCompletionOrderAfterSnapshot
    /\ YieldedAfterFinish
    /\ NotHeldBack
    /\ EndsAfterAll

\* the records of the third and of the second task are out, in the order
\* in which these finished after as_completed began, while the first task,
\* submitted before both, still runs
C28_Witness ==
    /\ gen = "suspended"
    /\ Len(tasks) = 3
    /\ snapshot = {}
    /\ completed = <<3, 2>>
    /\ Len(yielded) = 2
    /\ TaskOf(1) = 3
    /\ TaskOf(2) = 2
    /\ futures[1].state = "RUNNING"

(***************************************************************************)
(* Properties of the failures met while reading a request.                 *)
(***************************************************************************)
\* the text is a non-negative decimal integer: one or more decimal digits
IsNonNegDecimal(text) ==
    text # <<>> /\ \A i \in 1..Len(text) : IsDigit(text[i])

\* the headers just parsed carry a content-length that is not one
BadLength(headers) ==
    /\ CONTENT_LENGTH \in DOMAIN headers
    /\ ~IsNonNegDecimal(headers[CONTENT_LENGTH])

\* C31: a request whose content-length value is not a non-negative decimal
\* integer is treated like a malformed request line or header: the loop
\* ends and the connection is closed without any response being written,
\* so such a request reaches neither the handler nor the except clause
C31_BadLengthDropsConnection ==
    \A c \in Conns :
        /\ fault[c] # "ValueError"
        /\ pc[c] \in {"dispatch", "write", "except"} => ~BadLength(req[c].headers)

(***************************************************************************)
(* Properties of the end of the connection loop.                           *)
(***************************************************************************)
\* the socket is closed at most once, and it is closed exactly when _handle
\* has returned, its worker then being free of it
C32_Closed ==
    \A c \in Conns :
        /\ closes[c] <= 1
        /\ pc[c] = "done" <=> closes[c] = 1
        /\ pc[c] = "done" => \A w \in Workers : running[w] # c

\* nothing is written once the socket is closed; the worker returns only
\* with the socket closed; a fault while dispatching or writing goes to the
\* except clause, which attempts the 500 before the close
C32_Step ==
    \A c \in Conns :
        /\ closes[c] >= 1 => out'[c] = out[c]
        /\ \A w \in Workers :
              (running[w] = c /\ running'[w] # c) => closes'[c] = 1
        /\ (pc[c] \in {"dispatch", "write"} /\ fault'[c] # fault[c]) =>
              pc'[c] = "except"
        /\ (pc[c] \in {"dispatch", "write"} /\ pc'[c] \notin {"dispatch", "write"}) =>
              pc'[c] \in {"reqline", "except", "finally"}
        /\ (pc[c] = "except" /\ pc'[c] # "except") =>
              /\ pc'[c] = "finally"
              /\ closes'[c] = 0
              /\ \/ /\ Len(out'[c]) = Len(out[c]) + 1
                    /\ out'[c][Len(out'[c])].kind = "fallback"
                 \/ sendFailed'[c] /\ out'[c] = out[c]

\* C32: every run of the connection loop terminates with the client socket
\* closed exactly once, on every path (close requested, cap reached, parse
\* error, timeout, disconnect, or a fault while dispatching or writing,
\* after which a 500 is attempted first); no accepted socket is left open
\* after its worker returns, and nothing is written to a closed socket
C32_LoopEndsWithOneClose ==
    /\ []C32_Closed
    /\ [][C32_Step]_vars
    /\ []<>(\A c \in Conns : pc[c] \notin InHandle)

\* after a first request was answered, the second met a fault in the
\* handler or in the write; the 500 went out and the socket was closed once
C32_Witness ==
    \E c \in Conns :
        /\ pc[c] = "done"
        /\ closes[c] = 1
        /\ iter[c] = 2
        /\ fault[c] \notin ReadFaults \cup {"none"}
        /\ Len(out[c]) = 2
        /\ out[c][2].kind = "fallback"

(***************************************************************************)
(* Properties of the failures of RadixRouter.match.                        *)
(***************************************************************************)
\* C33: RadixRouter.match never raises: for every set of registered
\* patterns, those that use one parameter name in two segments included,
\* and for every path and method, it returns a (route, params) pair or None
C33_MatchNeverRaises ==
    lookup # NoLookup =>
        /\ lookup.outcome \in {"route", "None"}
        /\ lookup.outcome = "route" <=> lookup.result # <<>>

(***************************************************************************)
(* Properties of the connection header of the responses.                   *)
(***************************************************************************)
\* this step writes a response on connection c
WritesResponse(c) == Len(out'[c]) = Len(out[c]) + 1

\* the response written says "close" exactly when the loop is over with it
C34_Step ==
    \A c \in Conns :
        WritesResponse(c) =>
            (out'[c][Len(out'[c])].connection = "close" <=> pc'[c] = "finally")

\* C34: the connection header of every written response tells what the
\* server does next: it is "close" if and only if the server closes the
\* connection after that response instead of reading a further request,
\* the response that reaches the cap of requests included
C34_ConnectionHeaderTellsTheTruth == [][C34_Step]_vars

(***************************************************************************)
(* Properties of stream_parallel without tasks.                            *)
(***************************************************************************)
\* C35: stream_parallel called with an empty task list and no explicit
\* worker count terminates normally and yields zero records, without
\* raising: once asked, the generator is exhausted at once
C35_NoTasksNoRecords ==
    (tasks = <<>> /\ workers = 0 /\ gen \notin {"none", "created"}) =>
        /\ gen # "raised"
        /\ yielded = <<>>
        /\ futures = <<>>
====
